---- MODULE Spec2Model ----
(***************************************************************************)
(* dnsbench: the concurrent query engine.                                  *)
(*                                                                         *)
(*   Spec          runBenchmark / benchmarkResolver / doWarmupRuns with    *)
(*                 the Resolver's limiter and the retrier underneath       *)
(*   SpecResolver  one Resolver and a set of concurrent QueryDNS callers   *)
(*   SpecRetry     one retryWithBackoff call over an arbitrary operation   *)
(*   SpecSSE       the SSEReporter of one run broadcasting through an      *)
(*                 SSEHub to clients that come, read and go                *)
(*   SpecCalls     single calls of try, calculateStats, IsValid and        *)
(*                 SuccessRate on arguments drawn from bounded sets        *)
(*   SpecLive      Spec with fairness, for termination                     *)
(*   SpecServer    the uiServer handling run, stop and reset requests      *)
(*                                                                         *)
(* Durations are counted in units of 100ms (2s = 20, 60s = 600).           *)
(***************************************************************************)
EXTENDS Integers, Sequences, FiniteSets, TLC

VARIABLES
    cfg,        \* the arguments of runBenchmark: servers, domains, *Config
    canceled,   \* the caller's context has been canceled
    rb,         \* runBenchmark's frame: pc, loop index, results, runErr, return value
    ev,         \* what the BenchmarkReporter has been told
    resolvers,  \* Resolver objects: concurrency and the fill of sem
    gdone,      \* errgroup contexts that have been canceled
    qs,         \* QueryDNS calls (and the retrier frame inside each)
    tasks,      \* errgroup tasks of benchmarkResolver
    chans,      \* the results channel of each benchmarkResolver call
    coll,       \* benchmarkResolver's collector: allLatencies, errorCount
    rt,         \* SpecRetry: the frame of one retryWithBackoff call
    rtlog,      \* SpecRetry: invocations of f and waits observed
    hub,        \* SpecSSE: the SSEHub: clients with their channels, nextID
    bc,         \* SpecSSE: the reporter's Broadcast call in progress
    call,       \* SpecCalls: one call of a function: arguments and what it returned
    ui          \* SpecServer: the uiServer, its runs and the requests being handled

vars == <<cfg, canceled, rb, ev, resolvers, gdone, qs, tasks, chans, coll, rt, rtlog,
          hub, bc, call, ui>>

benchVars == <<cfg, rb, ev, gdone, tasks, chans, coll>>
retryVars == <<rt, rtlog>>
sseVars == <<hub, bc>>

----------------------------------------------------------------------------
(* Bounds of the model *)

MaxServers == 2
MaxDomains == 2
MaxRepeats == 2
MaxTasks == 2
MaxWarmup == 1
MaxConc == 2
MaxTook == 3
TimeoutUnits == 2
NumCallers == 2
MaxRetriesArg == 3
MaxBackoffArg == 4
MaxAddrs == 2
MaxLatencies == 3
MaxErrs == 2
FloatBits == 7
LiveServers == 1
MaxRequests == 3
MaxClientIds == 2
SSEQueries == 30

(* Program constants *)

ResolverRetries == 10
SingleAttempt == 1
InitialBackoff == 20
MaxBackoff == 600
WarmupTimeout == 10
ClientBuffer == 32

----------------------------------------------------------------------------
(* Small helpers *)

NoCall == [fn |-> "none"]

\* the uiServer where no web UI is served
NoUI == <<>>

Min2(a, b) == IF a < b THEN a ELSE b

\* math.NaN(): no float is negative here, so -1 is free to stand for it
NaN == -1
ErrNil == "nil"
ErrCanceled == "canceled"           \* context.Canceled
ErrDeadline == "deadline"           \* context.DeadlineExceeded
ErrNoAddrs == "noaddrs"             \* "no addresses found for domain ..."
ErrNet == "net"                     \* any other error of LookupHost
ErrConfig == "maxRetries"           \* "maxRetries must be positive"
ErrEmptyDomain == "emptydomain"     \* "empty domain name"
ErrNoServers == "noservers"
ErrNoDomains == "nodomains"

----------------------------------------------------------------------------
(* retryWithBackoff (utils.go).  A frame r carries pc, attempt, backoff,   *)
(* maxRetries, maxBackoff and the named results val, err.                  *)
(* pc: "check"    at the top of the loop, before ctx.Err()                 *)
(*     "try"      f(attempt) has been invoked and has not returned         *)
(*     "wait"     in the select between ctx.Done() and time.After(wait)    *)
(*     "returned" the function has returned (val, err)                     *)

retryEnterUnchecked(r, maxRetries, initialBackoff, maxBackoff) ==
    [r EXCEPT !.pc = "check", !.attempt = 0, !.maxRetries = maxRetries,
              !.maxBackoff = maxBackoff,
              !.backoff = Min2(initialBackoff, maxBackoff),
              !.val = 0, !.err = ErrNil]

retryEnter(r, maxRetries, initialBackoff, maxBackoff) ==
    IF maxRetries < 1
    THEN [r EXCEPT !.pc = "returned", !.maxRetries = maxRetries,
                   !.maxBackoff = maxBackoff, !.val = 0, !.err = ErrConfig]
    ELSE [r EXCEPT !.pc = "check", !.attempt = 0, !.maxRetries = maxRetries,
                   !.maxBackoff = maxBackoff,
                   !.backoff = Min2(initialBackoff, maxBackoff),
                   !.val = 0, !.err = ErrNil]

retryCheckBlind(r, ctxErr) == [r EXCEPT !.pc = "try"]

retryCheck(r, ctxErr) ==
    IF ctxErr # ErrNil
    THEN [r EXCEPT !.pc = "returned", !.err = ctxErr]
    ELSE [r EXCEPT !.pc = "try"]

retryCallBreaksLate(r, res) ==
    IF res.err = ErrNil
    THEN [r EXCEPT !.pc = "returned", !.val = res.val, !.err = ErrNil]
    ELSE IF r.attempt = r.maxRetries
         THEN [r EXCEPT !.pc = "returned", !.val = res.val, !.err = res.err]
         ELSE [r EXCEPT !.pc = "wait", !.val = res.val, !.err = res.err]

retryCallAccumulates(r, res) ==
    IF res.err = ErrNil
    THEN [r EXCEPT !.pc = "returned", !.val = r.val + res.val, !.err = ErrNil]
    ELSE IF r.attempt = r.maxRetries - 1
         THEN [r EXCEPT !.pc = "returned", !.val = r.val + res.val, !.err = res.err]
         ELSE [r EXCEPT !.pc = "wait", !.val = r.val + res.val, !.err = res.err]

retryCall(r, res) ==
    IF res.err = ErrNil
    THEN [r EXCEPT !.pc = "returned", !.val = res.val, !.err = ErrNil]
    ELSE IF r.attempt = r.maxRetries - 1
         THEN [r EXCEPT !.pc = "returned", !.val = res.val, !.err = res.err]
         ELSE [r EXCEPT !.pc = "wait", !.val = res.val, !.err = res.err]

\* wait := backoff/2 + jitter, jitter = rand.N(backoff) in [0, backoff)
\* (every value for a backoff up to MaxBackoffArg, the two ends and the middle
\* of the range for a longer one)
retryJitters(backoff) ==
    IF backoff <= MaxBackoffArg THEN 0..(backoff - 1)
    ELSE {0, backoff \div 2, backoff - 1}

retryWaitFor(backoff, jitter) == backoff \div 2 + jitter

\* the timer fired: backoff = min(backoff*2, maxBackoff), next iteration of
\* for attempt := range maxRetries, or return val, err after the loop
retryWaitTimerUncapped(r) ==
    LET n == [r EXCEPT !.attempt = @ + 1, !.backoff = r.backoff * 2]
    IN  IF n.attempt < n.maxRetries
        THEN [n EXCEPT !.pc = "check"]
        ELSE [n EXCEPT !.pc = "returned"]

retryWaitTimer(r) ==
    LET n == [r EXCEPT !.attempt = @ + 1,
                       !.backoff = Min2(r.backoff * 2, r.maxBackoff)]
    IN  IF n.attempt < n.maxRetries
        THEN [n EXCEPT !.pc = "check"]
        ELSE [n EXCEPT !.pc = "returned"]

retryWaitDone(r, ctxErr) ==
    [r EXCEPT !.pc = "returned", !.err = ctxErr]

----------------------------------------------------------------------------
(* Resolver (resolver.go) *)

NilErr == [class |-> "nil", cause |-> ErrNil]
NoResult == [set |-> FALSE, elapsed |-> 0, err |-> NilErr]

NewResolver(concurrency) ==
    LET c == IF concurrency < 1 THEN 1 ELSE concurrency
    IN  [concurrency |-> c, cap |-> c, sem |-> 0]

\* if r.sem != nil && r.concurrency > 0
UsesSem(r) == r.concurrency > 0

SemHasRoomOffByOne(r) == r.sem <= r.cap

\* r.sem <- struct{}{} proceeds only while the channel has room
SemHasRoom(r) == r.sem < r.cap

SemAcquire(r) == IF UsesSem(r) THEN [r EXCEPT !.sem = @ + 1] ELSE r

SemReleaseUnlessCanceled(r, q) ==
    IF q.held /\ q.err # ErrCanceled THEN [r EXCEPT !.sem = @ - 1] ELSE r

\* defer func() { <-r.sem }()
SemRelease(r, q) == IF q.held THEN [r EXCEPT !.sem = @ - 1] ELSE r

\* What LookupHost(attemptCtx, domain) can answer: addresses in time, addresses
\* late, no addresses, a transport error, the attempt's deadline, or the
\* cancellation of the caller's context (only once it is canceled).
LookupOutcomes(timeout, ctxErr) ==
    {[addrs |-> 1, err |-> ErrNil, took |-> t] : t \in 1..MaxTook}
    \cup {[addrs |-> 0, err |-> ErrNil, took |-> 1],
          [addrs |-> 0, err |-> ErrNet, took |-> 1],
          [addrs |-> 0, err |-> ErrDeadline, took |-> timeout]}
    \cup (IF ctxErr # ErrNil
          THEN {[addrs |-> 0, err |-> ErrCanceled, took |-> 1]} ELSE {})

TryTrustsLookup(o, timeout) ==
    IF o.err # ErrNil THEN [val |-> o.took, err |-> o.err]
    ELSE IF o.addrs = 0 THEN [val |-> o.took, err |-> ErrNoAddrs]
    ELSE [val |-> o.took, err |-> ErrNil]

\* the try closure of QueryDNS, after LookupHost has answered o
Try(o, timeout) ==
    IF o.err # ErrNil THEN [val |-> o.took, err |-> o.err]
    ELSE IF o.took > timeout THEN [val |-> o.took, err |-> ErrDeadline]
    ELSE IF o.addrs = 0 THEN [val |-> o.took, err |-> ErrNoAddrs]
    ELSE [val |-> o.took, err |-> ErrNil]

QueryEnterUnvalidated(res, grp, domain, timeout, retry) ==
    [pc |-> "acquire", res |-> res, grp |-> grp, domain |-> domain,
     timeout |-> timeout, retry |-> retry, attempt |-> 0, backoff |-> 0,
     maxRetries |-> 0, maxBackoff |-> 0, val |-> 0, err |-> ErrNil,
     held |-> FALSE, lookups |-> 0, ret |-> NoResult]

\* QueryDNS up to the semaphore: the empty domain is refused at once
QueryEnter(res, grp, domain, timeout, retry) ==
    LET q == [pc |-> "acquire", res |-> res, grp |-> grp, domain |-> domain,
              timeout |-> timeout, retry |-> retry, attempt |-> 0, backoff |-> 0,
              maxRetries |-> 0, maxBackoff |-> 0, val |-> 0, err |-> ErrNil,
              held |-> FALSE, lookups |-> 0, ret |-> NoResult]
    IN  IF domain = ""
        THEN [q EXCEPT !.pc = "done",
                       !.ret = [set |-> TRUE, elapsed |-> 0,
                                err |-> [class |-> "invalid", cause |-> ErrEmptyDomain]]]
        ELSE q

QueryRetriesAlways(retry) == ResolverRetries

QueryRetries(retry) == IF retry THEN ResolverRetries ELSE SingleAttempt

\* QueryDNS once the slot is held: retryWithBackoff(ctx, try, retries, 2s, 60s)
QueryAcquired(q) == retryEnter(q, QueryRetries(q.retry), InitialBackoff, MaxBackoff)

QueryReturnUnclassified(q) ==
    [q EXCEPT !.pc = "done",
              !.ret = IF q.err # ErrNil
                      THEN [set |-> TRUE, elapsed |-> 0,
                            err |-> [class |-> "failed", cause |-> q.err]]
                      ELSE [set |-> TRUE, elapsed |-> q.val, err |-> NilErr]]

\* QueryDNS after retryWithBackoff has returned
QueryReturn(q) ==
    [q EXCEPT !.pc = "done",
              !.ret = IF q.err # ErrNil
                      THEN [set |-> TRUE, elapsed |-> 0,
                            err |-> [class |-> IF q.err = ErrDeadline THEN "timeout" ELSE "failed",
                                     cause |-> q.err]]
                      ELSE [set |-> TRUE, elapsed |-> q.val, err |-> NilErr]]

CtxErrIgnored(q) == ErrNil

\* ctx.Err() of the context a call was given
CtxErr(q) == IF canceled \/ q.grp \in gdone THEN ErrCanceled ELSE ErrNil

\* One step of a call leaves the frame nq; when the retrier has returned, the
\* rest of QueryDNS runs: wrap the error, release the slot (deferred), return.
Commit(id, nq, rs) ==
    IF nq.pc = "returned"
    THEN /\ qs' = [qs EXCEPT ![id] = QueryReturn(nq)]
         /\ resolvers' = [rs EXCEPT ![nq.res] = SemRelease(@, nq)]
    ELSE /\ qs' = [qs EXCEPT ![id] = nq]
         /\ resolvers' = rs

QAcquire(id) ==
    /\ qs[id].pc = "acquire"
    /\ UsesSem(resolvers[qs[id].res]) => SemHasRoom(resolvers[qs[id].res])
    /\ Commit(id, QueryAcquired([qs[id] EXCEPT !.held = UsesSem(resolvers[qs[id].res])]),
              [resolvers EXCEPT ![qs[id].res] = SemAcquire(@)])
    /\ UNCHANGED <<canceled, benchVars, retryVars, sseVars, call, ui>>

QCheck(id) ==
    /\ qs[id].pc = "check"
    /\ LET nq == retryCheck(qs[id], CtxErr(qs[id]))
       IN  Commit(id, IF nq.pc = "try" THEN [nq EXCEPT !.lookups = @ + 1] ELSE nq,
                  resolvers)
    /\ UNCHANGED <<canceled, benchVars, retryVars, sseVars, call, ui>>

QTry(id, outcomes) ==
    /\ qs[id].pc = "try"
    /\ \E o \in outcomes :
          Commit(id, retryCall(qs[id], Try(o, qs[id].timeout)), resolvers)
    /\ UNCHANGED <<canceled, benchVars, retryVars, sseVars, call, ui>>

QWaitTimer(id) ==
    /\ qs[id].pc = "wait"
    /\ Commit(id, retryWaitTimer(qs[id]), resolvers)
    /\ UNCHANGED <<canceled, benchVars, retryVars, sseVars, call, ui>>

QWaitCancel(id) ==
    /\ qs[id].pc = "wait"
    /\ CtxErr(qs[id]) # ErrNil
    /\ Commit(id, retryWaitDone(qs[id], CtxErr(qs[id])), resolvers)
    /\ UNCHANGED <<canceled, benchVars, retryVars, sseVars, call, ui>>

----------------------------------------------------------------------------
(* SSEHub (sse.go).  hub.clients maps a client id to the content of its    *)
(* channel; bc is the Broadcast call of the reporter: the event, the       *)
(* clients the range over h.clients has still to visit, and to whom the    *)
(* event went.                                                             *)

\* clients maps the id of a registered client to the events in its channel;
\* closed keeps, for the channels Remove has closed, how often they were
\* closed and how often an event was sent on them afterwards (both panic in
\* Go when they happen to a closed channel)
NewSSEHub == [clients |-> <<>>, nextID |-> 0, closed |-> <<>>]

NoBroadcast == [pc |-> "idle", n |-> 0, evt |-> <<>>, todo |-> {}, sentTo |-> {},
                dropped |-> {}]

\* h.nextID++; h.clients[c.id] = &sseClient{ch: make(chan SSEEvent, 32)}
Add(h) ==
    [h EXCEPT !.clients = h.clients @@ ((h.nextID + 1) :> <<>>),
              !.nextID = h.nextID + 1]

\* one more close of the channel of client id
CloseChannel(closed, id) ==
    IF id \in DOMAIN closed
    THEN [closed EXCEPT ![id].closes = @ + 1]
    ELSE closed @@ (id :> [closes |-> 1, sends |-> 0])

RemoveKeepsEntry(h, id) ==
    IF id \in DOMAIN h.clients
    THEN [h EXCEPT !.closed = CloseChannel(@, id)]
    ELSE h

\* if c, ok := h.clients[id]; ok { close(c.done); close(c.ch); delete(h.clients, id) }
Remove(h, id) ==
    IF id \in DOMAIN h.clients
    THEN [h EXCEPT !.clients = [c \in (DOMAIN h.clients) \ {id} |-> h.clients[c]],
                   !.closed = CloseChannel(@, id)]
    ELSE h

SendReadyWhenRoom(ch) == Len(ch) < ClientBuffer

\* select { case c.ch <- evt: ... default: ... } never waits
SendReady(ch) == TRUE

\* the case the select takes: the send when the channel has room
SendOrDrop(ch, evt) == IF Len(ch) < ClientBuffer THEN Append(ch, evt) ELSE ch

----------------------------------------------------------------------------
(* float64, with the significand cut to FloatBits bits.  A finite float     *)
(* that is not negative is kept as the integer number of units of           *)
(* 2^-(2*FloatBits-1) it is worth: every float from 2^-FloatBits upwards is *)
(* a whole number of units with at most FloatBits significant bits.  Each   *)
(* operation rounds its exact result to the nearest such number, ties to    *)
(* the even significand.  NaN is a value of its own.                        *)

RECURSIVE Pow2(_)
Pow2(n) == IF n <= 0 THEN 1 ELSE 2 * Pow2(n - 1)

\* 1.0
FloatUnit == Pow2(2 * FloatBits - 1)

\* the distance between neighbouring floats at k
RECURSIVE Ulp(_)
Ulp(k) == IF k < Pow2(FloatBits) THEN 1 ELSE 2 * Ulp(k \div 2)

\* the float nearest to the exact value n/den (in units), ties to even
RoundAt(n, den) ==
    LET u == Ulp(n \div den)
        q == n \div (den * u)
        r == n - q * den * u
        up == 2 * r > den * u \/ (2 * r = den * u /\ q % 2 = 1)
    IN  (IF up THEN q + 1 ELSE q) * u

\* the rounding every float operation ends with; num is evaluated once
RoundFloat(num, den) == CHOOSE v \in {RoundAt(n, den) : n \in {num}} : TRUE

\* float64(n) for an int n
Float(n) == RoundFloat(n * FloatUnit, 1)

FAdd(a, b) == RoundFloat(a + b, 1)

\* a * float64(n) and a / float64(n) for a small int n
FMulInt(a, n) == RoundFloat(a * n, 1)

FDivInt(a, n) == RoundFloat(a, n)

----------------------------------------------------------------------------
(* Stats (benchmark.go) *)

RECURSIVE InsertSorted(_, _)
InsertSorted(x, s) ==
    IF s = <<>> THEN <<x>>
    ELSE IF x <= Head(s) THEN <<x>> \o s
    ELSE <<Head(s)>> \o InsertSorted(x, Tail(s))

\* sort.Float64s
RECURSIVE SortFloat64s(_)
SortFloat64s(s) ==
    IF s = <<>> THEN <<>> ELSE InsertSorted(Head(s), SortFloat64s(Tail(s)))

\* sum := 0.0; for _, lat := range latencies { sum += lat }
RECURSIVE SumFrom(_, _)
SumFrom(sum, s) == IF s = <<>> THEN sum ELSE SumFrom(FAdd(sum, Head(s)), Tail(s))

SumSeq(s) == SumFrom(0, s)

calculateStatsZeroWhenEmpty(latencies, errs, total) ==
    IF Len(latencies) = 0
    THEN [Min |-> 0, Max |-> 0, Mean |-> 0,
          Count |-> 0, Errors |-> errs, Total |-> total]
    ELSE LET sorted == SortFloat64s(latencies)
         IN  [Min |-> sorted[1], Max |-> sorted[Len(sorted)],
              Mean |-> FDivInt(SumSeq(sorted), Len(sorted)),
              Count |-> Len(sorted), Errors |-> errs, Total |-> total]

calculateStatsCompleted(latencies, errs, total) ==
    IF Len(latencies) = 0
    THEN [Min |-> NaN, Max |-> NaN, Mean |-> NaN,
          Count |-> 0, Errors |-> errs, Total |-> 0]
    ELSE LET sorted == SortFloat64s(latencies)
         IN  [Min |-> sorted[1], Max |-> sorted[Len(sorted)],
              Mean |-> FDivInt(SumSeq(sorted), Len(sorted)),
              Count |-> Len(sorted), Errors |-> errs, Total |-> Len(sorted)]

calculateStats(latencies, errs, total) ==
    IF Len(latencies) = 0
    THEN [Min |-> NaN, Max |-> NaN, Mean |-> NaN,
          Count |-> 0, Errors |-> errs, Total |-> total]
    ELSE LET sorted == SortFloat64s(latencies)
         IN  [Min |-> sorted[1], Max |-> sorted[Len(sorted)],
              Mean |-> FDivInt(SumSeq(sorted), Len(sorted)),
              Count |-> Len(sorted), Errors |-> errs, Total |-> total]

IsValidCountOnly(s) == s.Count > 0

IsValid(s) == s.Count > 0 /\ s.Mean # NaN

SuccessRateOneWhenEmpty(s) ==
    IF s.Total = 0 THEN Float(1)
    ELSE FDivInt(Float(s.Count), s.Total)

SuccessRate(s) ==
    IF s.Total = 0 THEN 0
    ELSE FDivInt(Float(s.Count), s.Total)

\* Duration.Seconds() for a duration of d units of 100ms
Seconds(d) == FDivInt(Float(d), 10)

\* lat.Seconds() * 1000
LatencyMs(d) == FMulInt(Seconds(d), 1000)

----------------------------------------------------------------------------
(* runBenchmark, benchmarkResolver, doWarmupRuns (benchmark.go) *)

DomainNames == <<"a", "b", "c", "d">>

DomainLists ==
    {SubSeq(DomainNames, 1, n) : n \in 0..MaxDomains}
    \cup {Append(SubSeq(DomainNames, 1, n - 1), "") : n \in 1..MaxDomains}

Server(k) == [Name |-> k]

Configs ==
    {c \in {[servers |-> [k \in 1..n |-> Server(k)], domains |-> d, Repeats |-> r,
             WarmupRuns |-> w, MaxConcurrency |-> mc, LookupTimeout |-> TimeoutUnits] :
               n \in 0..MaxServers, d \in DomainLists, r \in 1..MaxRepeats,
               w \in 0..MaxWarmup, mc \in 1..MaxConc} :
        c.Repeats = 1 \/ Len(c.domains) * c.Repeats <= MaxTasks}

NoReturn == [set |-> FALSE, results |-> <<>>, isNil |-> FALSE, err |-> ErrNil]

NoEvents == [start |-> <<>>, complete |-> <<>>, srv |-> <<>>]

NoServerEvents == [rstart |-> <<>>, qok |-> 0, qerr |-> 0, rdone |-> <<>>]

Total == Len(cfg.domains) * cfg.Repeats

\* the k-th task launched: for range Repeats { for _, domain := range domains
TaskDomain(k) == cfg.domains[((k - 1) % Len(cfg.domains)) + 1]

TasksOf(s) == {t \in DOMAIN tasks : t[1] = s}

\* goroutines that have been started and have not finished
RunningTasks(s) == {t \in TasksOf(s) : tasks[t].pc # "exited"}
RunningQueries(s) == {id \in DOMAIN qs : id[1] = s /\ qs[id].pc # "exited"}

Exited(q) ==
    [q EXCEPT !.pc = "exited", !.attempt = 0, !.backoff = 0, !.maxRetries = 0,
              !.maxBackoff = 0, !.val = 0, !.err = ErrNil, !.held = FALSE,
              !.lookups = 0, !.ret = NoResult]

BenchInit ==
    /\ cfg \in Configs
    /\ canceled = FALSE
    /\ rb = [pc |-> "idle", i |-> 0, results |-> <<>>, runErr |-> ErrNil, ret |-> NoReturn]
    /\ ev = NoEvents
    /\ resolvers = <<>>
    /\ gdone = {}
    /\ qs = <<>>
    /\ tasks = <<>>
    /\ chans = <<>>
    /\ coll = [allLatencies |-> <<>>, errorCount |-> 0]
    /\ rt = <<>>
    /\ rtlog = <<>>
    /\ hub = NewSSEHub
    /\ bc = NoBroadcast
    /\ call = NoCall
    /\ ui = NoUI

\* the caller cancels ctx while runBenchmark is running
Cancel ==
    /\ rb.pc \in {"loop", "collect"}
    /\ ~canceled
    /\ canceled' = TRUE
    /\ UNCHANGED <<benchVars, resolvers, qs, retryVars, sseVars, call, ui>>

ZeroStats == [Min |-> 0, Max |-> 0, Mean |-> 0,
              Count |-> 0, Errors |-> 0, Total |-> 0]

MakeResultsWithLen(servers) == [k \in 1..Len(servers) |-> [Server |-> Server(0), Stats |-> ZeroStats]]

\* results := make([]BenchmarkResult, 0, len(servers))
MakeResults(servers) == <<>>

PrependResult(results, server, stats) ==
    <<[Server |-> server, Stats |-> stats]>> \o results

AppendValidOnly(results, server, stats) ==
    IF IsValid(stats) THEN Append(results, [Server |-> server, Stats |-> stats])
    ELSE results

\* results = append(results, BenchmarkResult{Server: server, Stats: stats})
AppendResult(results, server, stats) ==
    Append(results, [Server |-> server, Stats |-> stats])

ValidationErrorServersOnly(servers, domains) ==
    IF Len(servers) = 0 THEN ErrNoServers ELSE ErrNil

\* the two length tests at the top of runBenchmark
ValidationError(servers, domains) ==
    IF Len(servers) = 0 THEN ErrNoServers
    ELSE IF Len(domains) = 0 THEN ErrNoDomains
    ELSE ErrNil

\* runBenchmark up to the loop: validation, OnStart
RunStart ==
    /\ rb.pc = "idle"
    /\ IF ValidationError(cfg.servers, cfg.domains) # ErrNil
       THEN /\ rb' = [rb EXCEPT !.pc = "done",
                         !.ret = [set |-> TRUE, results |-> <<>>, isNil |-> TRUE,
                                  err |-> ValidationError(cfg.servers, cfg.domains)]]
            /\ ev' = ev
       ELSE /\ rb' = [rb EXCEPT !.pc = "loop", !.i = 1,
                                !.results = MakeResults(cfg.servers),
                                !.runErr = ErrNil]
            /\ ev' = [ev EXCEPT !.start = Append(@, [totalResolvers |-> Len(cfg.servers),
                                                     domains |-> cfg.domains]),
                                !.srv = [k \in 1..Len(cfg.servers) |-> NoServerEvents]]
    /\ UNCHANGED <<cfg, canceled, resolvers, gdone, qs, tasks, chans, coll, retryVars, sseVars, call, ui>>

RunReturnSilent(runErr) ==
    /\ rb' = [rb EXCEPT !.pc = "done", !.runErr = runErr,
                        !.ret = [set |-> TRUE, results |-> rb.results, isNil |-> FALSE,
                                 err |-> runErr]]
    /\ UNCHANGED <<cfg, canceled, ev, resolvers, gdone, qs, tasks, chans, coll, retryVars, sseVars, call, ui>>

\* the end of runBenchmark: OnComplete(results, runErr); return results, runErr
RunReturn(runErr) ==
    /\ rb' = [rb EXCEPT !.pc = "done", !.runErr = runErr,
                        !.ret = [set |-> TRUE, results |-> rb.results, isNil |-> FALSE,
                                 err |-> runErr]]
    /\ ev' = [ev EXCEPT !.complete = Append(@, [results |-> rb.results, err |-> runErr])]
    /\ UNCHANGED <<cfg, canceled, resolvers, gdone, qs, tasks, chans, coll, retryVars, sseVars, call, ui>>

\* if cErr := ctx.Err(); cErr != nil { runErr = cErr; break }
RunCanceled ==
    /\ rb.pc = "loop"
    /\ rb.i <= Len(cfg.servers)
    /\ canceled
    /\ RunReturn(ErrCanceled)

\* the range over servers is exhausted
RunFinish ==
    /\ rb.pc = "loop"
    /\ rb.i > Len(cfg.servers)
    /\ RunReturn(rb.runErr)

\* the goroutines one errg.Go starts for task k of server s: with warmup, the
\* task is in doWarmupRuns with its warmup goroutines started; without, it is
\* in QueryDNS
TaskQueryId(t) == <<t[1], t[2], 0>>

WarmupIds(t) == {<<t[1], t[2], w>> : w \in 1..cfg.WarmupRuns}

MeasuredQuery(t) ==
    QueryEnter(t[1], t[1], TaskDomain(t[2]), cfg.LookupTimeout, TRUE)

WarmupQuery(t) ==
    QueryEnter(t[1], t[1], TaskDomain(t[2]), WarmupTimeout, FALSE)

ResolverStartEventZeroBased(s) ==
    [server |-> cfg.servers[s], index |-> s - 1, total |-> Len(cfg.servers)]

\* reporter.OnResolverStart(server, i+1, len(servers)); s is i+1
ResolverStartEvent(s) ==
    [server |-> cfg.servers[s], index |-> s, total |-> Len(cfg.servers)]

\* one iteration of the loop up to the collector: the context check passed,
\* OnResolverStart, then benchmarkResolver starts every task and the closer
ServerStart ==
    /\ rb.pc = "loop"
    /\ rb.i <= Len(cfg.servers)
    /\ ~canceled
    /\ LET s == rb.i
           new == {<<s, k>> : k \in 1..Total}
       IN  /\ rb' = [rb EXCEPT !.pc = "collect"]
           /\ ev' = [ev EXCEPT !.srv[s].rstart = Append(@, ResolverStartEvent(s))]
           /\ chans' = chans @@ (s :> [buf |-> <<>>, cap |-> Total, closed |-> FALSE,
                                       panicked |-> FALSE])
           /\ resolvers' = resolvers @@ (s :> NewResolver(cfg.MaxConcurrency))
           /\ coll' = [allLatencies |-> <<>>, errorCount |-> 0]
           /\ IF cfg.WarmupRuns > 0
              THEN /\ tasks' = tasks @@ [t \in new |-> [pc |-> "warmup", wg |-> cfg.WarmupRuns, sent |-> 0]]
                   /\ qs' = qs @@ [id \in UNION {WarmupIds(t) : t \in new} |->
                                      WarmupQuery(id)]
              ELSE /\ tasks' = tasks @@ [t \in new |-> [pc |-> "query", wg |-> 0, sent |-> 0]]
                   /\ qs' = qs @@ [id \in {TaskQueryId(t) : t \in new} |-> MeasuredQuery(id)]
    /\ UNCHANGED <<cfg, canceled, gdone, retryVars, sseVars, call, ui>>

WarmupExitCounted(id) ==
    /\ id[3] > 0
    /\ qs[id].pc = "done"
    /\ qs' = [qs EXCEPT ![id] = Exited(@)]
    /\ tasks' = [tasks EXCEPT ![<<id[1], id[2]>>].wg = @ - 1]
    /\ coll' = IF qs[id].ret.err # NilErr
               THEN [coll EXCEPT !.errorCount = @ + 1]
               ELSE [coll EXCEPT !.allLatencies = Append(@, LatencyMs(qs[id].ret.elapsed))]
    /\ UNCHANGED <<cfg, canceled, rb, ev, resolvers, gdone, chans, retryVars, sseVars, call, ui>>

\* a warmup goroutine: QueryDNS has returned, the result is dropped, wg.Done()
WarmupExit(id) ==
    /\ id[3] > 0
    /\ qs[id].pc = "done"
    /\ qs' = [qs EXCEPT ![id] = Exited(@)]
    /\ tasks' = [tasks EXCEPT ![<<id[1], id[2]>>].wg = @ - 1]
    /\ UNCHANGED <<cfg, canceled, rb, ev, resolvers, gdone, chans, coll, retryVars, sseVars, call, ui>>

WarmupsNotWaited(t) == TRUE

\* wg.Wait() in doWarmupRuns
WarmupsWaited(t) == tasks[t].wg = 0

\* doWarmupRuns returns (wg.Wait, gcAndWait) and the task calls QueryDNS
TaskQuery(t) ==
    /\ tasks[t].pc = "warmup"
    /\ WarmupsWaited(t)
    /\ tasks' = [tasks EXCEPT ![t].pc = "query"]
    /\ qs' = qs @@ (TaskQueryId(t) :> MeasuredQuery(t))
    /\ UNCHANGED <<cfg, canceled, rb, ev, resolvers, gdone, chans, coll, retryVars, sseVars, call, ui>>

\* what the task sends for the (lat, err) QueryDNS returned
TaskResult(q) ==
    IF q.ret.err # NilErr
    THEN [domain |-> q.domain, latency |-> 0, err |-> q.ret.err]
    ELSE [domain |-> q.domain, latency |-> LatencyMs(q.ret.elapsed), err |-> NilErr]

TaskReturnErr(q) == q.ret.err

\* the error the task function returns to the errgroup: return nil
TaskReturn(q) == NilErr

\* the task sends its result and returns; a non-nil return would cancel the
\* group's context
TaskSend(t) ==
    LET s == t[1]
        q == qs[TaskQueryId(t)]
    IN  /\ tasks[t].pc = "query"
        /\ q.pc = "done"
        /\ chans[s].closed \/ Len(chans[s].buf) < chans[s].cap
        /\ chans' = [chans EXCEPT ![s] =
                        IF @.closed THEN [@ EXCEPT !.panicked = TRUE]
                        ELSE [@ EXCEPT !.buf = Append(@, TaskResult(q))]]
        /\ tasks' = [tasks EXCEPT ![t].pc = "exited", ![t].sent = @ + 1]
        /\ qs' = [qs EXCEPT ![TaskQueryId(t)] = Exited(@)]
        /\ gdone' = IF TaskReturn(q) # NilErr THEN gdone \cup {s} ELSE gdone
        /\ UNCHANGED <<cfg, canceled, rb, ev, resolvers, coll, retryVars, sseVars, call, ui>>

GroupWaitedEarly(s) == \E t \in TasksOf(s) : tasks[t].pc = "exited"

\* errg.Wait() returns once every task has returned
GroupWaited(s) == RunningTasks(s) = {}

\* go func() { errg.Wait(); close(results) }()
Closer(s) ==
    /\ s \in DOMAIN chans
    /\ ~chans[s].closed
    /\ GroupWaited(s)
    /\ gdone' = gdone \cup {s}
    /\ chans' = [chans EXCEPT ![s].closed = TRUE]
    /\ UNCHANGED <<cfg, canceled, rb, ev, resolvers, qs, tasks, coll, retryVars, sseVars, call, ui>>

\* for r := range results: one received result
Collect ==
    /\ rb.pc = "collect"
    /\ Len(chans[rb.i].buf) > 0
    /\ LET r == Head(chans[rb.i].buf)
       IN  /\ chans' = [chans EXCEPT ![rb.i].buf = Tail(@)]
           /\ IF r.err # NilErr
              THEN /\ coll' = [coll EXCEPT !.errorCount = @ + 1]
                   /\ ev' = [ev EXCEPT !.srv[rb.i].qerr = @ + 1]
              ELSE /\ coll' = [coll EXCEPT !.allLatencies = Append(@, r.latency)]
                   /\ ev' = [ev EXCEPT !.srv[rb.i].qok = @ + 1]
    /\ UNCHANGED <<cfg, canceled, rb, resolvers, gdone, qs, tasks, retryVars, sseVars, call, ui>>

\* the channel is closed and drained: calculateStats, append the result,
\* OnResolverDone, gcAndWait, next server
CollectEnd ==
    /\ rb.pc = "collect"
    /\ Len(chans[rb.i].buf) = 0
    /\ chans[rb.i].closed
    /\ LET stats == calculateStats(coll.allLatencies, coll.errorCount, Total)
       IN  /\ rb' = [rb EXCEPT !.pc = "loop", !.i = @ + 1,
                               !.results = AppendResult(@, cfg.servers[rb.i], stats)]
           /\ ev' = [ev EXCEPT !.srv[rb.i].rdone = Append(@, stats)]
           /\ coll' = [coll EXCEPT !.allLatencies = SortFloat64s(@)]
    /\ UNCHANGED <<cfg, canceled, resolvers, gdone, qs, tasks, chans, retryVars, sseVars, call, ui>>

\* the answers the measured servers give in this model
BenchOutcomes(q) ==
    {o \in LookupOutcomes(q.timeout, CtxErr(q)) :
        \/ o.err \in {ErrNet, ErrCanceled}
        \/ o.err = ErrNil /\ o.addrs = 1 /\ o.took \in {1, MaxTook}}

Next ==
    \/ RunStart
    \/ RunCanceled
    \/ RunFinish
    \/ ServerStart
    \/ Cancel
    \/ \E id \in DOMAIN qs : QAcquire(id)
    \/ \E id \in DOMAIN qs : QCheck(id)
    \/ \E id \in DOMAIN qs : QTry(id, BenchOutcomes(qs[id]))
    \/ \E id \in DOMAIN qs : QWaitTimer(id)
    \/ \E id \in DOMAIN qs : QWaitCancel(id)
    \/ \E id \in DOMAIN qs : WarmupExit(id)
    \/ \E t \in DOMAIN tasks : TaskQuery(t)
    \/ \E t \in DOMAIN tasks : TaskSend(t)
    \/ \E s \in DOMAIN chans : Closer(s)
    \/ Collect
    \/ CollectEnd

Spec == BenchInit /\ [][Next]_vars

----------------------------------------------------------------------------
(* Properties of runBenchmark, checked under Spec *)

ValidInputs == Len(cfg.servers) > 0 /\ Len(cfg.domains) > 0

Returned == rb.pc = "done" /\ rb.ret.set

\* the measured query of task t is between acquiring and releasing its slot
TaskHoldsSlot(t) ==
    /\ TaskQueryId(t) \in DOMAIN qs
    /\ qs[TaskQueryId(t)].pc \in {"check", "try", "wait"}

\* C3 (as claimed): whenever the context is canceled between the start and the
\* return of runBenchmark, the run returns the cancellation error together
\* with the results finalized so far.
C3_CancelAlwaysReturned ==
    (Returned /\ canceled) =>
        (rb.ret.err = ErrCanceled /\ rb.ret.results = rb.results)

\* C4: when the check before server i finds the context canceled, the run
\* returns the results of the servers before i and the cancellation error;
\* server i and the later ones got no OnResolverStart, no resolver, no task
\* and no query.
C4_CanceledBeforeServer ==
    (Returned /\ rb.ret.err = ErrCanceled) =>
        /\ Len(rb.ret.results) = rb.i - 1
        /\ \A k \in 1..Len(rb.ret.results) : rb.ret.results[k].Server = cfg.servers[k]
        /\ \A k \in rb.i..Len(cfg.servers) :
              /\ ev.srv[k].rstart = <<>>
              /\ k \notin DOMAIN resolvers
              /\ TasksOf(k) = {}
              /\ {id \in DOMAIN qs : id[1] = k} = {}

C4_Witness ==
    /\ Returned
    /\ rb.ret.err = ErrCanceled
    /\ Len(cfg.servers) = 2
    /\ Len(rb.ret.results) = 1
    /\ rb.ret.results[1].Stats.Count = Total

\* C5: once a later server has been started, no task and no query (measured
\* or warmup) of an earlier server is still running.
C5_ServersSequential ==
    \A s \in DOMAIN resolvers : \A s2 \in DOMAIN resolvers :
        s < s2 => (RunningTasks(s) = {} /\ RunningQueries(s) = {})

C5_Witness ==
    /\ cfg.WarmupRuns > 0
    /\ 2 \in DOMAIN resolvers
    /\ \E id \in DOMAIN qs : id[1] = 2 /\ qs[id].pc = "try"

\* C6 (as claimed): at most MaxConcurrency tasks of the pool run at a time.
C6_PoolLimited ==
    \A s \in DOMAIN chans : Cardinality(RunningTasks(s)) <= cfg.MaxConcurrency

\* C6 (amended): the pool has no limit of its own, all domains x repeats tasks
\* of a server run at once; at most MaxConcurrency of them are past the
\* resolver's limiter, the others wait for a slot or for their warmup.
C6_TasksBoundedByLimiter ==
    \A s \in DOMAIN chans :
        /\ Cardinality(RunningTasks(s)) <= Total
        /\ Cardinality({t \in RunningTasks(s) : TaskHoldsSlot(t)}) <= cfg.MaxConcurrency

C6_Witness ==
    \E s \in DOMAIN chans :
        /\ Cardinality(RunningTasks(s)) > cfg.MaxConcurrency
        /\ Cardinality({t \in RunningTasks(s) : TaskHoldsSlot(t)}) = cfg.MaxConcurrency

\* C7: every result carries Total = len(domains) * Repeats and
\* Count + Errors = Total, canceled or not; every task has sent exactly once.
C7_TotalsAddUp ==
    \A k \in 1..Len(rb.results) :
        /\ rb.results[k].Stats.Total = Len(cfg.domains) * cfg.Repeats
        /\ rb.results[k].Stats.Count + rb.results[k].Stats.Errors
              = rb.results[k].Stats.Total
        /\ Cardinality(TasksOf(k)) = rb.results[k].Stats.Total
        /\ \A t \in TasksOf(k) : tasks[t].sent = 1

C7_Witness ==
    /\ Returned
    /\ canceled
    /\ rb.ret.err = ErrNil
    /\ Len(rb.ret.results) = 2
    /\ rb.ret.results[2].Stats.Count = 1
    /\ rb.ret.results[2].Stats.Errors = 1

\* C8: a server none of whose queries succeeded still gets its result, with
\* Count = 0, Errors = Total = len(domains) * Repeats and IsValid() false, and
\* a run that is not canceled goes on to return one result per server.
C8_AllFailedServerKept ==
    /\ \A k \in DOMAIN ev.srv :
          (ev.srv[k].rdone # <<>> /\ ev.srv[k].qok = 0) =>
              /\ k <= Len(rb.results)
              /\ rb.results[k].Server = cfg.servers[k]
              /\ rb.results[k].Stats.Count = 0
              /\ rb.results[k].Stats.Errors = Len(cfg.domains) * cfg.Repeats
              /\ rb.results[k].Stats.Total = Len(cfg.domains) * cfg.Repeats
              /\ ~IsValid(rb.results[k].Stats)
    /\ (Returned /\ ValidInputs /\ ~canceled) =>
          Len(rb.ret.results) = Len(cfg.servers)

C8_Witness ==
    /\ Returned
    /\ ~canceled
    /\ \A k \in 1..Len(cfg.domains) : cfg.domains[k] # ""
    /\ Len(cfg.domains) = 2
    /\ Len(rb.ret.results) = 2
    /\ rb.ret.results[1].Stats.Count = 0
    /\ rb.ret.results[1].Stats.Errors = 2
    /\ rb.ret.results[2].Stats.Count = 2

\* C9: a failed query cancels nothing: the group's context is canceled only
\* after every task of the group has returned, each reported failure is one
\* unit of the server's Errors, and a run the caller does not cancel returns
\* no error and has finished every server.
C9_FailureNeverAborts ==
    /\ \A s \in gdone : RunningTasks(s) = {}
    /\ \A k \in 1..Len(rb.results) : rb.results[k].Stats.Errors = ev.srv[k].qerr
    /\ (Returned /\ ValidInputs /\ ~canceled) =>
          /\ rb.ret.err = ErrNil
          /\ \A k \in 1..Len(cfg.servers) : Len(ev.srv[k].rdone) = 1

C9_Witness ==
    /\ ~canceled
    /\ rb.pc = "collect"
    /\ rb.i = 1
    /\ Len(cfg.servers) = 2
    /\ coll.errorCount = 1
    /\ gdone = {}
    /\ \E t \in RunningTasks(1) : TaskHoldsSlot(t) /\ qs[TaskQueryId(t)].pc = "try"

\* C15: with no servers or no domains the run returns nil results and the
\* validation error (the one for servers when both are empty), and nothing
\* else ever happens: no reporter callback, no resolver, no task, no query.
C15_InvalidInputsRejected ==
    ~ValidInputs =>
        /\ ev = NoEvents
        /\ resolvers = <<>> /\ chans = <<>> /\ tasks = <<>> /\ qs = <<>>
        /\ rb.pc \in {"idle", "done"}
        /\ rb.pc = "done" =>
              /\ rb.ret.set
              /\ rb.ret.isNil
              /\ rb.ret.results = <<>>
              /\ rb.ret.err = IF Len(cfg.servers) = 0 THEN ErrNoServers ELSE ErrNoDomains

C15_Witness ==
    /\ Returned
    /\ Len(cfg.servers) = 2
    /\ cfg.domains = <<>>
    /\ rb.ret.isNil
    /\ rb.ret.err = ErrNoDomains

\* C16: with valid inputs the reporter is told nothing before OnStart, which
\* comes once, at entry, with len(servers) and the domains; OnComplete comes
\* once, exactly when the run returns, with the results and the error
\* returned, canceled or not; nothing is reported after OnComplete.
C16_StartFirstCompleteLast ==
    /\ [](/\ ev.start = <<>> => ev = NoEvents
          /\ (ValidInputs /\ rb.pc # "idle") =>
                ev.start = <<[totalResolvers |-> Len(cfg.servers), domains |-> cfg.domains]>>
          /\ ~Returned => ev.complete = <<>>
          /\ (ValidInputs /\ Returned) =>
                ev.complete = <<[results |-> rb.ret.results, err |-> rb.ret.err]>>)
    /\ [][ev.complete # <<>> => ev' = ev]_vars

C16_Witness ==
    /\ Returned
    /\ rb.ret.err = ErrCanceled
    /\ Len(ev.start) = 1
    /\ Len(ev.complete) = 1
    /\ Len(ev.srv[1].rdone) = 1
    /\ ev.srv[1].qok = 1
    /\ ev.srv[1].qerr = 1
    /\ ev.srv[2].rstart = <<>>

\* C17: the results are, at every moment and at the return, the results of
\* the first len(results) servers in the order given, never more than the
\* servers; a run that returns without the cancellation error returns one
\* result for every server.
C17_ResultsPrefixOfServers ==
    /\ Len(rb.results) <= Len(cfg.servers)
    /\ \A j \in 1..Len(rb.results) : rb.results[j].Server = cfg.servers[j]
    /\ (Returned /\ ValidInputs) =>
          /\ rb.ret.results = rb.results
          /\ rb.ret.err # ErrCanceled => Len(rb.ret.results) = Len(cfg.servers)

C17_Witness ==
    /\ Returned
    /\ rb.ret.err = ErrNil
    /\ Len(cfg.servers) = 2
    /\ Len(rb.ret.results) = 2
    /\ rb.ret.results[1].Server = Server(1)
    /\ rb.ret.results[2].Server = Server(2)
    /\ rb.ret.results[1].Stats.Errors = 1
    /\ rb.ret.results[2].Stats.Errors = 0

\* the warmup queries of server s, the ones made for domain d
WarmupQueriesOf(s) == {id \in DOMAIN qs : id[1] = s /\ id[3] > 0}

WarmupQueriesFor(s, d) == {id \in WarmupQueriesOf(s) : qs[id].domain = d}

\* C18 (as claimed): with warmupRuns > 0, once a measured query of a server
\* has started, every warmup query of that server has returned.
C18_WarmupPhaseFirst ==
    cfg.WarmupRuns > 0 =>
        \A id \in DOMAIN qs :
            id[3] = 0 =>
                \A w \in WarmupQueriesOf(id[1]) : qs[w].pc \in {"done", "exited"}

\* C19 (as claimed): with warmupRuns > 0, a server that has been started has
\* had exactly warmupRuns warmup queries launched for each domain.
C19_WarmupsPerDomain ==
    cfg.WarmupRuns > 0 =>
        \A s \in DOMAIN resolvers : \A k \in 1..Len(cfg.domains) :
            Cardinality(WarmupQueriesFor(s, cfg.domains[k])) = cfg.WarmupRuns

\* C20: a warmup query runs with the 1s timeout and without retry, so it
\* makes at most one lookup; no step of a warmup query touches the collector,
\* the results channel, the reporter or the results; what is reported and
\* counted for a server is exactly what its tasks have sent; and a task is
\* past doWarmupRuns only when every one of its warmup queries has returned.
C20_WarmupDiscarded ==
    /\ [](/\ \A id \in DOMAIN qs :
                id[3] > 0 =>
                    /\ ~qs[id].retry
                    /\ qs[id].timeout = WarmupTimeout
                    /\ qs[id].lookups <= 1
                    /\ qs[id].maxRetries <= 1
          /\ \A s \in DOMAIN chans :
                /\ Cardinality({t \in TasksOf(s) : tasks[t].sent = 1})
                      = ev.srv[s].qok + ev.srv[s].qerr + Len(chans[s].buf)
                /\ (rb.pc = "collect" /\ rb.i = s) =>
                      /\ Len(coll.allLatencies) = ev.srv[s].qok
                      /\ coll.errorCount = ev.srv[s].qerr
          /\ \A k \in 1..Len(rb.results) :
                /\ rb.results[k].Stats.Count = ev.srv[k].qok
                /\ rb.results[k].Stats.Errors = ev.srv[k].qerr
                /\ rb.results[k].Stats.Total = Len(cfg.domains) * cfg.Repeats
          /\ \A t \in DOMAIN tasks :
                (cfg.WarmupRuns > 0 /\ tasks[t].pc # "warmup") =>
                    \A w \in WarmupIds(t) : qs[w].pc = "exited")
    /\ [][\A id \in DOMAIN qs :
            (id[3] > 0 /\ qs'[id] # qs[id]) =>
                (coll' = coll /\ chans' = chans /\ ev' = ev /\ rb' = rb)]_vars

\* a warmup query has failed and is about to be dropped while a measured
\* result of the same server has been collected
C20_Witness ==
    /\ rb.pc = "collect"
    /\ Len(coll.allLatencies) = 1
    /\ coll.errorCount = 0
    /\ \E id \in WarmupQueriesOf(rb.i) :
          /\ qs[id].pc = "done"
          /\ qs[id].lookups = 1
          /\ qs[id].ret.err.cause = ErrNet

\* C21: in a step taken with the context canceled no query, measured or
\* warmup, first attempt or retry, starts a lookup; and a query that returned
\* without having made a lookup returned an error.
C21_NoLookupAfterCancel ==
    /\ [](\A id \in DOMAIN qs :
            (qs[id].pc = "done" /\ qs[id].lookups = 0) => qs[id].ret.err # NilErr)
    /\ [][canceled =>
            \A id \in DOMAIN qs' :
                qs'[id].lookups <= (IF id \in DOMAIN qs THEN qs[id].lookups ELSE 0)]_vars

\* after the cancellation a measured query that was waiting for its slot has
\* returned the cancellation error without a lookup, and another has been
\* stopped between its first and its second attempt
C21_Witness ==
    /\ canceled
    /\ \E a \in DOMAIN qs, b \in DOMAIN qs :
          /\ a[3] = 0 /\ b[3] = 0
          /\ qs[a].pc = "done" /\ qs[a].domain # "" /\ qs[a].lookups = 0
          /\ qs[a].ret.err.cause = ErrCanceled
          /\ qs[b].pc = "done" /\ qs[b].lookups = 1 /\ qs[b].err = ErrCanceled
          /\ qs[b].val > 0

----------------------------------------------------------------------------
(* SpecResolver: one Resolver from NewResolver(addr, c) and NumCallers      *)
(* goroutines that each call QueryDNS once on it, under one context.        *)

CallerIds == {<<1, i, 0>> : i \in 1..NumCallers}

ResolverInit ==
    /\ cfg \in {[concurrency |-> c] : c \in 0..MaxConc}
    /\ canceled = FALSE
    /\ resolvers = <<NewResolver(cfg.concurrency)>>
    /\ qs = <<>>
    /\ rb = [pc |-> "idle", i |-> 0, results |-> <<>>, runErr |-> ErrNil, ret |-> NoReturn]
    /\ ev = NoEvents
    /\ gdone = {}
    /\ tasks = <<>>
    /\ chans = <<>>
    /\ coll = [allLatencies |-> <<>>, errorCount |-> 0]
    /\ rt = <<>>
    /\ rtlog = <<>>
    /\ hub = NewSSEHub
    /\ bc = NoBroadcast
    /\ call = NoCall
    /\ ui = NoUI

\* a goroutine calls r.QueryDNS(ctx, domain, timeout, retry)
CallQueryDNS(id, domain, retry) ==
    /\ id \notin DOMAIN qs
    /\ qs' = qs @@ (id :> QueryEnter(1, 0, domain, TimeoutUnits, retry))
    /\ UNCHANGED <<canceled, resolvers, benchVars, retryVars, sseVars, call, ui>>

\* the context given to the calls is canceled
CancelCalls ==
    /\ ~canceled
    /\ canceled' = TRUE
    /\ UNCHANGED <<resolvers, qs, benchVars, retryVars, sseVars, call, ui>>

ResolverNext ==
    \/ \E id \in CallerIds, domain \in {"", "a"}, retry \in BOOLEAN :
          CallQueryDNS(id, domain, retry)
    \/ CancelCalls
    \/ \E id \in DOMAIN qs : QAcquire(id)
    \/ \E id \in DOMAIN qs : QCheck(id)
    \/ \E id \in DOMAIN qs : QTry(id, LookupOutcomes(qs[id].timeout, CtxErr(qs[id])))
    \/ \E id \in DOMAIN qs : QWaitTimer(id)
    \/ \E id \in DOMAIN qs : QWaitCancel(id)

SpecResolver == ResolverInit /\ [][ResolverNext]_vars

(* Properties of the Resolver, checked under SpecResolver *)

\* the calls between acquiring and releasing a slot of resolver rid
Holders(rid) ==
    {id \in DOMAIN qs : qs[id].res = rid /\ qs[id].pc \in {"check", "try", "wait"}}

SlotLimit == IF cfg.concurrency < 1 THEN 1 ELSE cfg.concurrency

\* C1: the calls that hold a slot of one Resolver number at most max(c, 1),
\* and a call waiting for a slot stays waiting in every step taken while
\* max(c, 1) calls hold one.
C1_LimiterBound ==
    /\ [](Cardinality(Holders(1)) <= SlotLimit)
    /\ [][\A id \in DOMAIN qs :
            (qs[id].pc = "acquire" /\ Cardinality(Holders(1)) >= SlotLimit)
                => qs'[id].pc = "acquire"]_vars

C1_Witness ==
    /\ cfg.concurrency = 0
    /\ \E a \in DOMAIN qs, b \in DOMAIN qs :
          /\ qs[a].pc = "try" /\ qs[a].attempt = 1
          /\ qs[b].pc = "acquire"

\* C2: the fill of the semaphore is the number of calls that acquired a slot
\* and have not returned: every return gave back the one slot of its call,
\* so with every call returned no slot is held.
C2_SlotReleasedOnReturn ==
    /\ resolvers[1].sem =
          Cardinality({id \in DOMAIN qs : qs[id].held /\ qs[id].pc # "done"})
    /\ \A id \in DOMAIN qs :
          qs[id].held <=> (qs[id].domain # "" /\ qs[id].pc # "acquire")
    /\ (DOMAIN qs = CallerIds /\ \A id \in CallerIds : qs[id].pc = "done")
          => resolvers[1].sem = 0

C2_Witness ==
    /\ resolvers[1].sem = 0
    /\ \E a \in DOMAIN qs, b \in DOMAIN qs :
          /\ qs[a].pc = "done" /\ qs[a].lookups = ResolverRetries
          /\ qs[a].ret.err.cause = ErrNet
          /\ qs[b].pc = "done" /\ qs[b].lookups = 2
          /\ qs[b].ret.err.cause = ErrCanceled

\* C13: a call with the empty domain has returned the validation error in
\* the step that made it: it holds no slot and took none (the semaphore is
\* untouched, full or not), it never entered the retrier and made no lookup.
C13_EmptyDomainRejected ==
    /\ [](\A id \in DOMAIN qs :
            qs[id].domain = "" =>
                /\ qs[id].pc = "done"
                /\ qs[id].ret = [set |-> TRUE, elapsed |-> 0,
                                 err |-> [class |-> "invalid", cause |-> ErrEmptyDomain]]
                /\ ~qs[id].held
                /\ qs[id].lookups = 0
                /\ qs[id].maxRetries = 0)
    /\ [][\A id \in CallerIds :
            (id \notin DOMAIN qs /\ id \in DOMAIN qs' /\ qs'[id].domain = "")
                => (qs'[id].pc = "done" /\ resolvers' = resolvers)]_vars

\* the limiter is full, held by a call in its lookup, and an empty-domain
\* call has returned
C13_Witness ==
    /\ resolvers[1].sem = resolvers[1].cap
    /\ \E a \in DOMAIN qs, b \in DOMAIN qs :
          /\ qs[a].pc = "try"
          /\ qs[b].domain = ""
          /\ qs[b].pc = "done"
          /\ qs[b].ret.err.cause = ErrEmptyDomain

\* C14: a call makes at most 10 lookups with retry and at most 1 without;
\* the lookups made are the attempts 0, 1, ..., each earlier one failed, and
\* a successful one ends the call with its duration.  A call that failed
\* with retry, other than by cancellation, made all 10; a call without retry
\* made exactly 1 unless the context was canceled before it.
C14_LookupAttempts ==
    \A id \in DOMAIN qs :
        LET q == qs[id]
        IN  /\ q.lookups <= (IF q.retry THEN 10 ELSE 1)
            /\ q.pc \in {"check"} => q.lookups = q.attempt
            /\ q.pc \in {"try", "wait"} => q.lookups = q.attempt + 1
            /\ (q.pc \in {"check", "wait"} /\ q.lookups > 0) => q.err # ErrNil
            /\ (q.pc = "done" /\ q.domain # "") =>
                  /\ q.ret.err = NilErr =>
                        (q.lookups = q.attempt + 1 /\ q.ret.elapsed = q.val)
                  /\ (q.retry /\ q.ret.err.cause \notin {ErrNil, ErrCanceled}) =>
                        q.lookups = 10
                  /\ ~q.retry =>
                        /\ q.lookups \in {0, 1}
                        /\ q.lookups = 0 => (canceled /\ q.ret.err.cause = ErrCanceled)

C14_Witness ==
    \E a \in DOMAIN qs, b \in DOMAIN qs :
        /\ qs[a].pc = "done" /\ qs[a].retry
        /\ qs[a].ret.err = NilErr /\ qs[a].lookups = 10
        /\ qs[b].pc = "done" /\ ~qs[b].retry
        /\ qs[b].ret.err.cause = ErrNet /\ qs[b].lookups = 1

\* C24: a call that fails returns the duration 0 and an error that wraps
\* the error the retrier surfaced; the error is of the timeout class exactly
\* when that error is the deadline error and of the generic class otherwise.
\* A call that stopped short of its attempts was stopped by the
\* cancellation and wraps the cancellation error, which is not the deadline
\* error, so it is never of the timeout class.
C24_FailureWrapping ==
    \A id \in DOMAIN qs :
        LET q == qs[id]
        IN  (q.pc = "done" /\ q.domain # "") =>
              /\ q.ret.set
              /\ q.err = ErrNil => (q.ret.err = NilErr /\ q.ret.elapsed = q.val)
              /\ q.err # ErrNil =>
                    /\ q.ret.elapsed = 0
                    /\ q.ret.err.cause = q.err
                    /\ q.ret.err.class = "timeout" <=> q.err = ErrDeadline
                    /\ q.ret.err.class = "failed" <=> q.err # ErrDeadline
                    /\ q.lookups < (IF q.retry THEN 10 ELSE 1) =>
                          (q.ret.err.cause = ErrCanceled /\ q.ret.err.class = "failed")

\* one call has failed on the deadline of its only attempt, another was
\* stopped by the cancellation after its first attempt
C24_Witness ==
    \E a \in DOMAIN qs, b \in DOMAIN qs :
        /\ qs[a].pc = "done" /\ ~qs[a].retry
        /\ qs[a].ret.err = [class |-> "timeout", cause |-> ErrDeadline]
        /\ qs[b].pc = "done" /\ qs[b].retry /\ qs[b].lookups = 1
        /\ qs[b].ret.err = [class |-> "failed", cause |-> ErrCanceled]
        /\ qs[b].ret.elapsed = 0

----------------------------------------------------------------------------
(* SpecRetry: one call retryWithBackoff(ctx, f, maxRetries, initialBackoff, *)
(* maxBackoff).  f(attempt) returns the value FVal(attempt) and either nil  *)
(* or the error FErr(attempt); which one is the environment's choice.       *)
(* rand.N needs a positive argument, so the backoffs given are positive.    *)

FailNames == <<"fail0", "fail1", "fail2", "fail3", "fail4", "fail5",
              "fail6", "fail7", "fail8", "fail9">>

FVal(attempt) == 10 + attempt

FErr(attempt) == FailNames[attempt + 1]

RetryInit ==
    /\ rt \in {[pc |-> "idle", attempt |-> 0, backoff |-> 0, maxRetries |-> m,
                initialBackoff |-> ib, maxBackoff |-> mb, val |-> 0, err |-> ErrNil] :
                  m \in -1..MaxRetriesArg, ib \in 1..MaxBackoffArg, mb \in 1..MaxBackoffArg}
               \cup {[pc |-> "idle", attempt |-> 0, backoff |-> 0,
                      maxRetries |-> ResolverRetries, initialBackoff |-> InitialBackoff,
                      maxBackoff |-> MaxBackoff, val |-> 0, err |-> ErrNil]}
    /\ rtlog = [invoked |-> <<>>, outs |-> <<>>, waits |-> <<>>]
    /\ canceled = FALSE
    /\ cfg = <<>>
    /\ rb = [pc |-> "idle", i |-> 0, results |-> <<>>, runErr |-> ErrNil, ret |-> NoReturn]
    /\ ev = NoEvents
    /\ resolvers = <<>>
    /\ gdone = {}
    /\ qs = <<>>
    /\ tasks = <<>>
    /\ chans = <<>>
    /\ coll = [allLatencies |-> <<>>, errorCount |-> 0]
    /\ hub = NewSSEHub
    /\ bc = NoBroadcast
    /\ call = NoCall
    /\ ui = NoUI

RetryCtxErr == IF canceled THEN ErrCanceled ELSE ErrNil

\* the call itself: the maxRetries test and the first backoff
RtEnter ==
    /\ rt.pc = "idle"
    /\ rt' = retryEnter(rt, rt.maxRetries, rt.initialBackoff, rt.maxBackoff)
    /\ UNCHANGED <<rtlog, canceled, resolvers, qs, benchVars, sseVars, call, ui>>

\* the top of the loop: ctx.Err(), then f(attempt) is invoked
RtCheck ==
    /\ rt.pc = "check"
    /\ rt' = retryCheck(rt, RetryCtxErr)
    /\ rtlog' = IF rt'.pc = "try"
                THEN [rtlog EXCEPT !.invoked =
                         Append(@, [attempt |-> rt.attempt, canceled |-> canceled])]
                ELSE rtlog
    /\ UNCHANGED <<canceled, resolvers, qs, benchVars, sseVars, call, ui>>

\* f(attempt) returns; on a failure that is not the last, the wait is drawn
RtInvoke ==
    /\ rt.pc = "try"
    /\ \E e \in {ErrNil, FErr(rt.attempt)} :
          /\ rt' = retryCall(rt, [val |-> FVal(rt.attempt), err |-> e])
          /\ \E j \in retryJitters(rt.backoff) :
                rtlog' = [rtlog EXCEPT
                            !.outs = Append(@, e),
                            !.waits = IF rt'.pc = "wait"
                                      THEN Append(@, [backoff |-> rt.backoff,
                                                      wait |-> retryWaitFor(rt.backoff, j)])
                                      ELSE @]
    /\ UNCHANGED <<canceled, resolvers, qs, benchVars, sseVars, call, ui>>

\* case <-time.After(wait)
RtWaitTimer ==
    /\ rt.pc = "wait"
    /\ rt' = retryWaitTimer(rt)
    /\ UNCHANGED <<rtlog, canceled, resolvers, qs, benchVars, sseVars, call, ui>>

\* case <-ctx.Done()
RtWaitCancel ==
    /\ rt.pc = "wait"
    /\ canceled
    /\ rt' = retryWaitDone(rt, RetryCtxErr)
    /\ UNCHANGED <<rtlog, canceled, resolvers, qs, benchVars, sseVars, call, ui>>

\* the caller cancels ctx
RtCancel ==
    /\ rt.pc # "returned"
    /\ ~canceled
    /\ canceled' = TRUE
    /\ UNCHANGED <<rt, rtlog, resolvers, qs, benchVars, sseVars, call, ui>>

RetryNext ==
    \/ RtEnter
    \/ RtCheck
    \/ RtInvoke
    \/ RtWaitTimer
    \/ RtWaitCancel
    \/ RtCancel

SpecRetry == RetryInit /\ [][RetryNext]_vars

\* C10: without cancellation, f is invoked for attempts 0, 1, 2, ... in turn
\* and every invocation but the last failed; if the last one succeeded its
\* value is returned with a nil error, otherwise it was attempt maxRetries-1
\* and its value and error are returned; there was one wait per failed
\* invocation except the last, and none after the last invocation.
C10_RetrierOutcome ==
    (rt.pc = "returned" /\ ~canceled /\ rt.maxRetries >= 1) =>
        LET n == Len(rtlog.invoked)
        IN  /\ n >= 1
            /\ n <= rt.maxRetries
            /\ Len(rtlog.outs) = n
            /\ \A i \in 1..n : rtlog.invoked[i].attempt = i - 1
            /\ \A i \in 1..(n - 1) : rtlog.outs[i] # ErrNil
            /\ Len(rtlog.waits) = n - 1
            /\ rt.val = FVal(n - 1)
            /\ rt.err = rtlog.outs[n]
            /\ rtlog.outs[n] # ErrNil => (n = rt.maxRetries /\ rt.err = FErr(rt.maxRetries - 1))

C10_Witness ==
    /\ rt.pc = "returned"
    /\ ~canceled
    /\ rt.maxRetries = 3
    /\ Len(rtlog.invoked) = 2
    /\ rt.err = ErrNil
    /\ rt.val = FVal(1)

\* C11: once the context is canceled, a retrier at the top of its loop
\* returns the cancellation error without invoking f, and a retrier in its
\* wait either returns the cancellation error (ctx.Done observed) or goes to
\* the top of the loop (timer observed), where the former applies; f is
\* never invoked with the context already canceled, and no wait is added.
C11_CancelStopsRetrier ==
    /\ [](\A i \in 1..Len(rtlog.invoked) : ~rtlog.invoked[i].canceled)
    /\ [][(canceled /\ rt.pc = "check" /\ rt' # rt) =>
            (rt'.pc = "returned" /\ rt'.err = ErrCanceled /\ rtlog' = rtlog)]_vars
    /\ [][(canceled /\ rt.pc = "wait" /\ rt' # rt) =>
            /\ rtlog' = rtlog
            /\ \/ rt'.pc = "returned" /\ rt'.err = ErrCanceled
               \/ rt'.pc = "check" /\ rt'.attempt < rt'.maxRetries]_vars

\* canceled in the second wait, after two failed invocations
C11_Witness ==
    /\ canceled
    /\ rt.pc = "returned"
    /\ rt.err = ErrCanceled
    /\ rt.maxRetries = 3
    /\ Len(rtlog.invoked) = 2
    /\ Len(rtlog.waits) = 2
    /\ rtlog.outs[2] = FErr(1)

\* C12: a call with maxRetries < 1 has returned the configuration error as
\* soon as it has been entered, canceled or not, with f never invoked and no
\* wait made.
C12_NoAttemptsWhenMisconfigured ==
    (rt.pc # "idle" /\ rt.maxRetries < 1) =>
        /\ rt.pc = "returned"
        /\ rt.err = ErrConfig
        /\ rt.val = 0
        /\ rtlog.invoked = <<>>
        /\ rtlog.outs = <<>>
        /\ rtlog.waits = <<>>

C12_Witness ==
    /\ rt.pc = "returned"
    /\ rt.maxRetries = -1
    /\ rt.err = ErrConfig
    /\ canceled

----------------------------------------------------------------------------
(* SpecSSE: the SSEReporter of a run over one server with SSEQueries query  *)
(* results, an SSEHub, and up to MaxClientIds clients that connect, read    *)
(* their channel and disconnect at any time.                                *)

SSEInit ==
    /\ hub = NewSSEHub
    /\ bc = NoBroadcast
    /\ call = NoCall
    /\ ui = NoUI
    /\ cfg = <<>>
    /\ canceled = FALSE
    /\ rb = [pc |-> "idle", i |-> 0, results |-> <<>>, runErr |-> ErrNil, ret |-> NoReturn]
    /\ ev = NoEvents
    /\ resolvers = <<>>
    /\ gdone = {}
    /\ qs = <<>>
    /\ tasks = <<>>
    /\ chans = <<>>
    /\ coll = [allLatencies |-> <<>>, errorCount |-> 0]
    /\ rt = <<>>
    /\ rtlog = <<>>

sseRest == <<cfg, canceled, rb, ev, resolvers, gdone, qs, tasks, chans, coll, rt, rtlog, call,
            ui>>

\* Broadcast is entered: h.mu.RLock(), the range over h.clients begins
Broadcast(type) ==
    /\ bc.pc = "idle"
    /\ bc' = [pc |-> "loop", n |-> bc.n + 1, evt |-> [Type |-> type, Seq |-> bc.n + 1],
              todo |-> DOMAIN hub.clients, sentTo |-> {}, dropped |-> {}]
    /\ UNCHANGED <<hub, sseRest>>

\* the callbacks of SSEReporter, in the order runBenchmark makes them
OnStart == bc.n = 0 /\ Broadcast("start")

OnResolverStart == bc.n = 1 /\ Broadcast("resolver_start")

OnQueryResult == bc.n \in 2..(SSEQueries + 1) /\ Broadcast("query")

OnResolverDone == bc.n = SSEQueries + 2 /\ Broadcast("resolver_done")

OnComplete == bc.n = SSEQueries + 3 /\ Broadcast("complete")

\* one iteration of the range: the select on c.ch
BroadcastStep(c) ==
    /\ bc.pc = "loop"
    /\ c \in bc.todo
    /\ SendReady(hub.clients[c])
    /\ hub' = IF c \in DOMAIN hub.closed
              THEN [hub EXCEPT !.closed[c].sends = @ + 1]
              ELSE [hub EXCEPT !.clients[c] = SendOrDrop(@, bc.evt)]
    /\ bc' = IF hub'.clients[c] # hub.clients[c]
             THEN [bc EXCEPT !.todo = @ \ {c}, !.sentTo = @ \cup {c}]
             ELSE [bc EXCEPT !.todo = @ \ {c}, !.dropped = @ \cup {c}]
    /\ UNCHANGED sseRest

\* the range is over: h.mu.RUnlock(), Broadcast and the callback return
BroadcastReturn ==
    /\ bc.pc = "loop"
    /\ bc.todo = {}
    /\ bc' = [bc EXCEPT !.pc = "idle"]
    /\ UNCHANGED <<hub, sseRest>>

\* Handle: a client connects; h.mu.Lock() needs the read lock released
HubAdd ==
    /\ bc.pc = "idle"
    /\ hub.nextID < MaxClientIds
    /\ hub' = Add(hub)
    /\ UNCHANGED <<bc, sseRest>>

\* h.Remove(id), by the deferred call of Handle or by anyone else, with the
\* id of a registered client, of a removed one or of none
HubRemove(c) ==
    /\ bc.pc = "idle"
    /\ hub' = Remove(hub, c)
    /\ UNCHANGED <<bc, sseRest>>

\* Handle: case evt, ok := <-ch
ClientRead(c) ==
    /\ c \in DOMAIN hub.clients
    /\ Len(hub.clients[c]) > 0
    /\ hub' = [hub EXCEPT !.clients[c] = Tail(@)]
    /\ UNCHANGED <<bc, sseRest>>

SSENext ==
    \/ OnStart
    \/ OnResolverStart
    \/ OnQueryResult
    \/ OnResolverDone
    \/ OnComplete
    \/ \E c \in DOMAIN hub.clients : BroadcastStep(c)
    \/ BroadcastReturn
    \/ HubAdd
    \/ \E c \in 1..MaxClientIds : HubRemove(c)
    \/ \E c \in DOMAIN hub.clients : ClientRead(c)

SpecSSE == SSEInit /\ [][SSENext]_vars

\* C22: while a callback is inside Broadcast, the iteration for every client
\* still to visit can be taken at once, whatever that client's channel
\* holds; it appends the event when the channel holds fewer than 32 events
\* and leaves the channel as it is when it holds 32, and touches no other
\* client's channel; no channel ever holds more than 32 events.
C22_BroadcastNeverBlocks ==
    /\ [](/\ \A c \in DOMAIN hub.clients : Len(hub.clients[c]) <= 32
          /\ bc.pc = "loop" =>
                /\ bc.todo \subseteq DOMAIN hub.clients
                /\ \A c \in bc.todo : ENABLED BroadcastStep(c)
                /\ bc.todo = {} => ENABLED BroadcastReturn)
    /\ [][\A c \in bc.todo :
            c \notin bc'.todo =>
                /\ hub'.clients[c] = IF Len(hub.clients[c]) < 32
                                      THEN Append(hub.clients[c], bc.evt)
                                      ELSE hub.clients[c]
                /\ \A d \in DOMAIN hub.clients \ {c} : hub'.clients[d] = hub.clients[d]
                /\ (c \in bc'.dropped) <=> (Len(hub.clients[c]) = 32)
                /\ (c \in bc'.sentTo) <=> (Len(hub.clients[c]) < 32)]_vars

\* a Broadcast has returned having dropped its event for client 1, whose
\* channel is full, and delivered it to client 2
C22_Witness ==
    /\ bc.pc = "idle"
    /\ bc.dropped = {1}
    /\ bc.sentTo = {2}
    /\ Len(hub.clients[1]) = 32
    /\ hub.clients[2] # <<>>
    /\ hub.clients[2][Len(hub.clients[2])] = bc.evt

----------------------------------------------------------------------------
(* SpecCalls: one call of try (on an answer of LookupHost), calculateStats, *)
(* Stats.IsValid or Stats.SuccessRate; the arguments are drawn from the     *)
(* sets below, the call returns, and calculateStats may then be called a    *)
(* second time on the slice the first call left.                            *)

\* answers of LookupHost: addresses, error, time taken
TryAnswers ==
    [addrs : 0..MaxAddrs, err : {ErrNil, ErrNet, ErrDeadline, ErrCanceled},
     took : 1..MaxTook]

\* latencies in ms: the ones of the model's lookups, the values of
\* TestCalculateStats, and 43.0, three of which add up to 129.0
LatencySamples ==
    {LatencyMs(d) : d \in 1..MaxTook} \cup {Float(n) : n \in 1..5} \cup {Float(43)}

LatencySlices == UNION {[1..n -> LatencySamples] : n \in 0..MaxLatencies}

\* TestCalculateStats: "Empty latencies" and "Normal distribution"
TestCalculateStats ==
    {[latencies |-> <<>>, errs |-> 5, total |-> 10],
     [latencies |-> <<Float(1), Float(2), Float(3), Float(4), Float(5)>>,
      errs |-> 2, total |-> 7]}

CalculateStatsArgs ==
    TestCalculateStats
    \cup {[latencies |-> l, errs |-> e, total |-> t] :
            l \in LatencySlices, e \in 0..MaxErrs,
            t \in {0, MaxLatencies + MaxErrs}}

\* Stats values, also ones calculateStats never returns
StatsValues ==
    [Min : {NaN, Float(1)}, Max : {NaN, Float(2)}, Mean : {NaN, Float(1)},
     Count : 0..MaxLatencies, Errors : 0..1, Total : 0..MaxLatencies]

CallsInit ==
    /\ ui = NoUI
    /\ call \in {[fn |-> "try", pc |-> "called", o |-> o, timeout |-> t] :
                    o \in TryAnswers, t \in 1..TimeoutUnits}
               \cup {[fn |-> "calculateStats", pc |-> "called", latencies |-> a.latencies,
                      errs |-> a.errs, total |-> a.total] : a \in CalculateStatsArgs}
               \cup {[fn |-> f, pc |-> "called", s |-> st] :
                      f \in {"IsValid", "SuccessRate"}, st \in StatsValues}
    /\ cfg = <<>>
    /\ canceled = FALSE
    /\ rb = [pc |-> "idle", i |-> 0, results |-> <<>>, runErr |-> ErrNil, ret |-> NoReturn]
    /\ ev = NoEvents
    /\ resolvers = <<>>
    /\ gdone = {}
    /\ qs = <<>>
    /\ tasks = <<>>
    /\ chans = <<>>
    /\ coll = [allLatencies |-> <<>>, errorCount |-> 0]
    /\ rt = <<>>
    /\ rtlog = <<>>
    /\ hub = NewSSEHub
    /\ bc = NoBroadcast

callsRest == <<cfg, canceled, rb, ev, resolvers, gdone, qs, tasks, chans, coll, rt, rtlog,
               hub, bc, ui>>

\* try returns (took, err)
TryReturns ==
    /\ call.fn = "try"
    /\ call.pc = "called"
    /\ call' = [fn |-> "try", pc |-> "returned", o |-> call.o, timeout |-> call.timeout,
                out |-> Try(call.o, call.timeout)]
    /\ UNCHANGED callsRest

\* what calculateStats leaves in the caller's slice: sort.Float64s(latencies)
\* sorts it in place, unless the slice is empty
SliceAfter(latencies) ==
    IF Len(latencies) = 0 THEN latencies ELSE SortFloat64s(latencies)

CalculateStatsReturns ==
    /\ call.fn = "calculateStats"
    /\ call.pc = "called"
    /\ call' = [fn |-> "calculateStats", pc |-> "returned", latencies |-> call.latencies,
                errs |-> call.errs, total |-> call.total,
                out |-> calculateStats(call.latencies, call.errs, call.total),
                after |-> SliceAfter(call.latencies)]
    /\ UNCHANGED callsRest

\* a second call with the same slice, as the first call left it
CalculateStatsAgain ==
    /\ call.fn = "calculateStats"
    /\ call.pc = "returned"
    /\ call' = [fn |-> "calculateStats", pc |-> "again", latencies |-> call.latencies,
                errs |-> call.errs, total |-> call.total, out |-> call.out,
                after |-> SliceAfter(call.after),
                out2 |-> calculateStats(call.after, call.errs, call.total)]
    /\ UNCHANGED callsRest

IsValidReturns ==
    /\ call.fn = "IsValid"
    /\ call.pc = "called"
    /\ call' = [fn |-> "IsValid", pc |-> "returned", s |-> call.s, out |-> IsValid(call.s)]
    /\ UNCHANGED callsRest

SuccessRateReturns ==
    /\ call.fn = "SuccessRate"
    /\ call.pc = "called"
    /\ call' = [fn |-> "SuccessRate", pc |-> "returned", s |-> call.s,
                out |-> SuccessRate(call.s)]
    /\ UNCHANGED callsRest

CallsNext ==
    \/ TryReturns
    \/ CalculateStatsReturns
    \/ CalculateStatsAgain
    \/ IsValidReturns
    \/ SuccessRateReturns

SpecCalls == CallsInit /\ [][CallsNext]_vars

TryReturned == call.fn = "try" /\ call.pc = "returned"

StatsReturned == call.fn = "calculateStats" /\ call.pc \in {"returned", "again"}

\* C23: an attempt fails with the lookup's error when there is one, with
\* the deadline error when there is none and the lookup took longer than
\* the timeout, with the no-addresses error when it returned none in time;
\* it succeeds exactly with no error, took <= timeout and an address, and
\* returns the time taken in every case.
C23_AttemptClassification ==
    TryReturned =>
        LET o == call.o
            t == call.timeout
            r == call.out
        IN  /\ r.val = o.took
            /\ o.err # ErrNil => r.err = o.err
            /\ (o.err = ErrNil /\ o.took > t) => r.err = ErrDeadline
            /\ (o.err = ErrNil /\ o.took <= t /\ o.addrs = 0) => r.err = ErrNoAddrs
            /\ r.err = ErrNil <=> (o.err = ErrNil /\ o.took <= t /\ o.addrs >= 1)

\* the lookup returned addresses and no error, but after the timeout
C23_Witness ==
    /\ TryReturned
    /\ call.o.err = ErrNil
    /\ call.o.addrs = 2
    /\ call.o.took = call.timeout + 1
    /\ call.out.err = ErrDeadline

\* C25: calculateStats of no latencies returns Count 0, NaN for Min, Max
\* and Mean, and the errs and total it was given; IsValid of it is false.
C25_EmptyStats ==
    (StatsReturned /\ call.latencies = <<>>) =>
        /\ call.out.Count = 0
        /\ call.out.Min = NaN /\ call.out.Max = NaN /\ call.out.Mean = NaN
        /\ call.out.Errors = call.errs
        /\ call.out.Total = call.total
        /\ ~IsValid(call.out)

\* the "Empty latencies" case of TestCalculateStats
C25_Witness ==
    /\ StatsReturned
    /\ call.latencies = <<>>
    /\ call.errs = 5
    /\ call.total = 10
    /\ call.out = [Min |-> NaN, Max |-> NaN, Mean |-> NaN,
                   Count |-> 0, Errors |-> 5, Total |-> 10]

\* the set of the elements of a slice
Elements(l) == {l[i] : i \in 1..Len(l)}

\* C26 (as claimed): calculateStats of a non-empty slice, in any order,
\* returns its smallest element as Min, its largest as Max, its length as
\* Count, the errs and total given, and a Mean with Min <= Mean <= Max.
C26_StatsOfSamples ==
    (StatsReturned /\ call.latencies # <<>>) =>
        LET l == call.latencies
            n == Len(l)
            o == call.out
        IN  /\ o.Min \in Elements(l) /\ \A x \in Elements(l) : o.Min <= x
            /\ o.Max \in Elements(l) /\ \A x \in Elements(l) : x <= o.Max
            /\ o.Count = n
            /\ o.Errors = call.errs
            /\ o.Total = call.total
            /\ o.Mean # NaN
            /\ o.Min <= o.Mean /\ o.Mean <= o.Max

Abs(x) == IF x < 0 THEN -x ELSE x

\* r is a float nearest to the quotient count / total
NearestToQuotient(r, count, total) ==
    2 * Abs(r * total - count * FloatUnit) <= Ulp(r) * total

SuccessRateReturned == call.fn = "SuccessRate" /\ call.pc = "returned"

IsValidReturned == call.fn = "IsValid" /\ call.pc = "returned"

\* C28: IsValid is true exactly for a Stats with Count > 0 and a Mean that
\* is not NaN; the Stats calculateStats returns is valid exactly when the
\* slice it was given has at least one sample.
C28_IsValid ==
    /\ IsValidReturned =>
          (call.out <=> (call.s.Count > 0 /\ call.s.Mean # NaN))
    /\ StatsReturned =>
          (IsValid(call.out) <=> Len(call.latencies) >= 1)

C28_Witness ==
    /\ IsValidReturned
    /\ call.s.Count > 0
    /\ call.s.Mean = NaN
    /\ ~call.out

\* C29 (as claimed): calculateStats leaves the caller's slice as it was, same
\* elements in the same order, and a second call with the same arguments
\* returns the same Stats.
C29_NoSideEffects ==
    StatsReturned =>
        /\ call.after = call.latencies
        /\ call.pc = "again" => call.out2 = call.out

\* the backoff values of the resolver's retries, in units of 100ms
ResolverSchedule == <<20, 40, 80, 160, 320, 600, 600, 600, 600>>

\* the failed invocations of f that were not the last attempt
FailedBeforeLast ==
    {i \in 1..Len(rtlog.outs) : rtlog.outs[i] # ErrNil /\ i < rt.maxRetries}

\* C30: the backoff starts at min(initialBackoff, maxBackoff); each wait is
\* at least backoff/2 and less than backoff/2 + backoff; the backoff is then
\* doubled and capped at maxBackoff, so that it never exceeds maxBackoff and
\* never decreases; a wait follows every failed attempt but the last; with
\* the resolver's parameters the backoffs are 2, 4, 8, 16, 32, 60, 60, 60, 60
\* seconds over at most 9 waits.
C30_BackoffSchedule ==
    LET w == rtlog.waits
    IN  /\ Len(w) = Cardinality(FailedBeforeLast)
        /\ Len(w) >= 1 => w[1].backoff = Min2(rt.initialBackoff, rt.maxBackoff)
        /\ \A i \in 1..Len(w) :
              /\ w[i].wait >= w[i].backoff \div 2
              /\ w[i].wait < w[i].backoff \div 2 + w[i].backoff
              /\ w[i].backoff <= rt.maxBackoff
              /\ i < Len(w) =>
                    /\ w[i + 1].backoff = Min2(2 * w[i].backoff, rt.maxBackoff)
                    /\ w[i + 1].backoff >= w[i].backoff
        /\ rt.pc \in {"check", "try", "wait"} => rt.backoff <= rt.maxBackoff
        /\ (rt.pc = "returned" /\ rt.maxRetries >= 1 /\ rt.err = FErr(rt.maxRetries - 1))
              => Len(w) = rt.maxRetries - 1
        /\ (/\ rt.maxRetries = ResolverRetries
            /\ rt.initialBackoff = InitialBackoff
            /\ rt.maxBackoff = MaxBackoff)
              => /\ Len(w) <= Len(ResolverSchedule)
                 /\ \A i \in 1..Len(w) : w[i].backoff = ResolverSchedule[i]

C30_Witness ==
    /\ rt.pc = "returned"
    /\ rt.maxRetries = ResolverRetries
    /\ rt.err = FErr(ResolverRetries - 1)
    /\ Len(rtlog.waits) = 9
    /\ rtlog.waits[9].backoff = 600
    /\ rtlog.waits[9].wait = 300 + 599

\* C31: for the server at position s of n (s = i+1), the reporter sees
\* OnResolverStart(server, s, n) once, then OnQueryResult calls, then
\* OnResolverDone(server, stats, took) once with exactly
\* len(domains) * Repeats query results before it, as many without an error
\* as stats.Count and as many with one as stats.Errors; no query result is
\* reported before the start or after the done of its server, and a server
\* starts only after the server before it is done.
C31_ServerCallbacks ==
    /\ [](\A s \in DOMAIN ev.srv :
            LET e == ev.srv[s]
            IN  /\ Len(e.rstart) <= 1
                /\ Len(e.rdone) <= 1
                /\ e.rstart # <<>> =>
                      e.rstart[1] = [server |-> cfg.servers[s], index |-> s,
                                     total |-> Len(cfg.servers)]
                /\ e.rstart = <<>> => (e.qok = 0 /\ e.qerr = 0 /\ e.rdone = <<>>)
                /\ e.qok + e.qerr <= Len(cfg.domains) * cfg.Repeats
                /\ e.rdone # <<>> =>
                      /\ e.qok + e.qerr = Len(cfg.domains) * cfg.Repeats
                      /\ e.qok = e.rdone[1].Count
                      /\ e.qerr = e.rdone[1].Errors
                      /\ rb.results[s].Stats = e.rdone[1]
                /\ (s > 1 /\ e.rstart # <<>>) => ev.srv[s - 1].rdone # <<>>)
    /\ [][\A s \in DOMAIN ev.srv :
            /\ ev.srv[s].rdone # <<>> => ev'.srv[s] = ev.srv[s]
            /\ (ev.srv[s].rstart = <<>> /\ s \in DOMAIN ev'.srv) =>
                  (ev'.srv[s].qok = 0 /\ ev'.srv[s].qerr = 0 /\ ev'.srv[s].rdone = <<>>)]_vars

C31_Witness ==
    /\ Len(cfg.servers) = 2
    /\ Len(cfg.domains) = 2
    /\ Len(ev.srv) = 2
    /\ ev.srv[2].rstart = <<[server |-> Server(2), index |-> 2, total |-> 2]>>
    /\ Len(ev.srv[2].rdone) = 1
    /\ ev.srv[2].qok = 1
    /\ ev.srv[2].qerr = 1
    /\ ev.srv[2].rdone[1].Count = 1
    /\ ev.srv[2].rdone[1].Errors = 1

\* the tasks of server s that have not sent their result yet
Unsent(s) == {t \in TasksOf(s) : tasks[t].sent = 0}

\* C32: the result channel of a server is closed only after every task of
\* the server has sent its result and returned; no task sends on the closed
\* channel; the capacity is the number of tasks and every task sends at most
\* once, so there is room for every send still to come; the Stats are
\* computed only when the channel is closed and empty and the collector has
\* received one result from every task.
C32_StreamClosedAfterTasks ==
    \A s \in DOMAIN chans :
        /\ ~chans[s].panicked
        /\ chans[s].cap = Len(cfg.domains) * cfg.Repeats
        /\ Cardinality(TasksOf(s)) = chans[s].cap
        /\ \A t \in TasksOf(s) :
              /\ tasks[t].sent <= 1
              /\ tasks[t].sent = 1 <=> tasks[t].pc = "exited"
        /\ chans[s].closed => Unsent(s) = {}
        /\ Len(chans[s].buf) + Cardinality(Unsent(s)) <= chans[s].cap
        /\ ev.srv[s].rdone # <<>> =>
              /\ chans[s].closed
              /\ chans[s].buf = <<>>
              /\ ev.srv[s].rdone[1].Count + ev.srv[s].rdone[1].Errors
                    = Cardinality(TasksOf(s))

\* the channel is full of results not yet read, and then closed
C32_Witness ==
    \E s \in DOMAIN chans :
        /\ chans[s].closed
        /\ chans[s].cap = 2
        /\ Len(chans[s].buf) = 2
        /\ chans[s].buf[1].err # NilErr
        /\ chans[s].buf[2].err = NilErr

\* no task, warmup or query goroutine takes part in the step
NoGoroutineMoved ==
    /\ \A t \in DOMAIN tasks : tasks'[t] = tasks[t]
    /\ \A id \in DOMAIN qs : qs'[id] = qs[id]

\* C33: the latency list and the error counter change, and the reporter is
\* called, only in steps of the goroutine that runs runBenchmark, never in a
\* step of a task or a query; a task that sends, sends the outcome of its own
\* query for its own domain and touches no other task.
C33_SingleCollector ==
    [][/\ (coll' # coll \/ ev' # ev) => NoGoroutineMoved
       /\ \A t \in DOMAIN tasks :
             tasks'[t].sent > tasks[t].sent =>
                /\ chans'[t[1]].buf =
                      Append(chans[t[1]].buf, TaskResult(qs[TaskQueryId(t)]))
                /\ TaskResult(qs[TaskQueryId(t)]).domain = TaskDomain(t[2])
                /\ \A u \in DOMAIN tasks \ {t} : tasks'[u] = tasks[u]
                /\ \A id \in DOMAIN qs \ {TaskQueryId(t)} : qs'[id] = qs[id]]_vars

\* the collector has taken the latency of one task of the server and reported
\* it while another task of that server is still in its query
C33_Witness ==
    /\ rb.pc = "collect"
    /\ Len(coll.allLatencies) = 1
    /\ ev.srv[rb.i].qok = 1
    /\ \E t \in TasksOf(rb.i) : tasks[t].pc = "query"

(***************************************************************************)
(* Termination of runBenchmark.  Every step but the caller's Cancel is a    *)
(* step of the program or of its environment returning: a runnable          *)
(* goroutine runs, a lookup returns, a backoff timer fires.  The run is     *)
(* fair to these steps taken together.                                      *)
(***************************************************************************)
Progress ==
    \/ RunStart
    \/ RunCanceled
    \/ RunFinish
    \/ ServerStart
    \/ \E id \in DOMAIN qs : QAcquire(id)
    \/ \E id \in DOMAIN qs : QCheck(id)
    \/ \E id \in DOMAIN qs : QTry(id, BenchOutcomes(qs[id]))
    \/ \E id \in DOMAIN qs : QWaitTimer(id)
    \/ \E id \in DOMAIN qs : QWaitCancel(id)
    \/ \E id \in DOMAIN qs : WarmupExit(id)
    \/ \E t \in DOMAIN tasks : TaskQuery(t)
    \/ \E t \in DOMAIN tasks : TaskSend(t)
    \/ \E s \in DOMAIN chans : Closer(s)
    \/ Collect
    \/ CollectEnd

\* the servers are benchmarked one after the other, each with its own
\* resolver, limiter, tasks and channel: the fair runs are those of at most
\* LiveServers servers
LiveInit == BenchInit /\ Len(cfg.servers) <= LiveServers

SpecLive == LiveInit /\ [][Next]_vars /\ WF_vars(Progress)

\* C34: runBenchmark returns in every fair run, canceled or not, and from
\* every state in which the context is canceled; until it has returned some
\* step of the program is possible (no deadlock); a task that waits for its
\* warmup queries has not called its measured query, so it holds no slot.
C34_RunTerminates ==
    /\ <>Returned
    /\ canceled ~> Returned
    /\ [](~Returned => ENABLED Progress)
    /\ [](\A t \in DOMAIN tasks :
            tasks[t].pc = "warmup" => TaskQueryId(t) \notin DOMAIN qs)

\* a query waits for a slot that a warmup query holds, after the cancellation
C34_Witness ==
    /\ canceled
    /\ ~Returned
    /\ \E id \in DOMAIN qs : qs[id].pc = "acquire" /\ ~SemHasRoom(resolvers[id[1]])
    /\ \E t \in DOMAIN tasks : tasks[t].pc = "warmup"

\* the measured queries
Measured == {id \in DOMAIN qs : id[3] = 0}

\* C35 (as claimed): once the run is canceled, every measured query that has
\* not returned yet returns an error.
C35_PendingAllErrors ==
    [][canceled =>
         \A id \in Measured :
            (qs[id].pc \in {"acquire", "check", "try", "wait"} /\ qs'[id].pc = "done")
                => qs'[id].ret.err # NilErr]_vars

\* C35 (amended): once the run is canceled, a measured query with no lookup
\* in flight (waiting for its slot, about to attempt, between attempts, or
\* started later) starts no lookup and returns an error; only a lookup in
\* flight at the cancellation can still succeed.  Every error the collector
\* receives is counted and reported, and when the canceled run returns every
\* server that was started has its OnResolverDone and its result, with
\* Count + Errors = len(domains) * Repeats.
C35_CanceledPassFinalized ==
    /\ [][canceled =>
            /\ \A id \in Measured :
                  qs[id].pc \in {"acquire", "check", "wait"} =>
                     /\ qs'[id].pc # "try"
                     /\ qs'[id].pc = "done" => qs'[id].ret.err # NilErr
            /\ \A id \in DOMAIN qs' \ DOMAIN qs :
                  \/ qs'[id].pc = "acquire"
                  \/ qs'[id].pc = "done" /\ qs'[id].ret.err # NilErr]_vars
    /\ [][\A s \in DOMAIN chans :
            (chans[s].buf # <<>> /\ chans'[s].buf = Tail(chans[s].buf)
                /\ Head(chans[s].buf).err # NilErr) =>
               /\ coll'.errorCount = coll.errorCount + 1
               /\ ev'.srv[s].qerr = ev.srv[s].qerr + 1
               /\ ev'.srv[s].qok = ev.srv[s].qok]_vars
    /\ []((Returned /\ canceled /\ ValidInputs) =>
            \A s \in DOMAIN ev.srv :
               ev.srv[s].rstart # <<>> =>
                  /\ ev.srv[s].rdone # <<>>
                  /\ Len(rb.ret.results) >= s
                  /\ rb.ret.results[s].Stats = ev.srv[s].rdone[1]
                  /\ rb.ret.results[s].Stats.Errors = ev.srv[s].qerr
                  /\ rb.ret.results[s].Stats.Count + rb.ret.results[s].Stats.Errors
                        = Len(cfg.domains) * cfg.Repeats)

\* the run was canceled during the first of two servers: one query had its
\* answer, the other was stopped, and the first server's result is returned
C35_Witness ==
    /\ Returned
    /\ canceled
    /\ rb.ret.err = ErrCanceled
    /\ Len(cfg.servers) = 2
    /\ Len(rb.ret.results) = 1
    /\ rb.ret.results[1].Stats.Count = 1
    /\ rb.ret.results[1].Stats.Errors = 1
    /\ ev.srv[1].qerr = 1
    /\ Len(ev.srv[1].rdone) = 1

\* C36: the duration a successful QueryDNS returns is the took of the
\* lookup that succeeded, never more than the timeout of the call,
\* whatever the earlier attempts took and however long the call waited for
\* its slot or between attempts; a call returns success only in the step in
\* which a lookup returns.
C36_LatencyOfSuccessfulAttempt ==
    /\ [](\A id \in DOMAIN qs :
            (qs[id].pc = "done" /\ qs[id].ret.err = NilErr) =>
                /\ qs[id].ret.elapsed >= 0
                /\ qs[id].ret.elapsed <= qs[id].timeout)
    /\ [][\A id \in DOMAIN qs :
            (qs[id].pc # "done" /\ qs'[id].pc = "done" /\ qs'[id].ret.err = NilErr) =>
                /\ qs[id].pc = "try"
                /\ \E o \in LookupOutcomes(qs[id].timeout, ErrNil) :
                      /\ o.err = ErrNil
                      /\ o.addrs > 0
                      /\ o.took <= qs[id].timeout
                      /\ qs'[id].ret.elapsed = o.took]_vars

\* a call succeeds at its third lookup with the shortest took, after another
\* call has held the only slot
C36_Witness ==
    \E a \in DOMAIN qs, b \in DOMAIN qs :
        /\ a # b
        /\ cfg.concurrency = 1
        /\ qs[a].pc = "done" /\ qs[a].ret.err # NilErr /\ qs[a].lookups = 10
        /\ qs[b].pc = "done" /\ qs[b].ret.err = NilErr
        /\ qs[b].lookups = 3
        /\ qs[b].ret.elapsed = 1

\* the ids Add has handed out so far
HandedOut == DOMAIN hub.clients \cup DOMAIN hub.closed

\* C37: under every interleaving of Add, Remove and Broadcast, a channel
\* that Remove has closed was closed once and no event was sent on it; a
\* client Remove has removed is not registered and is never visited by a
\* Broadcast, so that a further Remove of its id, or a Remove of an id never
\* handed out, changes nothing; the ids handed out are 1, 2, ..., each one
\* once and larger than all before it.
C37_HubSafe ==
    /\ [](/\ \A id \in DOMAIN hub.closed :
                /\ hub.closed[id].closes = 1
                /\ hub.closed[id].sends = 0
                /\ id \notin DOMAIN hub.clients
          /\ HandedOut = 1..hub.nextID
          /\ bc.pc = "loop" => bc.todo \subseteq DOMAIN hub.clients)
    /\ [][/\ \A id \in DOMAIN hub.closed :
                /\ id \in DOMAIN hub'.closed
                /\ hub'.closed[id] = hub.closed[id]
                /\ id \notin DOMAIN hub'.clients
          /\ hub'.nextID >= hub.nextID
          /\ hub'.nextID # hub.nextID =>
                /\ hub'.nextID = hub.nextID + 1
                /\ hub'.nextID \notin HandedOut
                /\ \A id \in HandedOut : id < hub'.nextID
                /\ DOMAIN hub'.clients = DOMAIN hub.clients \cup {hub'.nextID}
                /\ hub'.clients[hub'.nextID] = <<>>
                /\ hub'.closed = hub.closed
          /\ hub'.nextID = hub.nextID => DOMAIN hub'.clients \subseteq DOMAIN hub.clients]_vars

\* client 1 was removed, client 2 is registered, and a Broadcast has visited
\* and delivered to client 2 alone
C37_Witness ==
    /\ hub.nextID = 2
    /\ DOMAIN hub.closed = {1}
    /\ DOMAIN hub.clients = {2}
    /\ bc.pc = "idle"
    /\ bc.sentTo = {2}
    /\ Len(hub.clients[2]) >= 1

----------------------------------------------------------------------------
(***************************************************************************)
(* The uiServer (server.go): handleRun, handleStop and handleReset          *)
(* requests handled concurrently, the runs they start and stop, and the     *)
(* events they broadcast.  A run is known by its position in ui.runs; the   *)
(* CancelFunc of a run is that position, its run id the number of the       *)
(* request that started it (the handler takes it from the clock).  The      *)
(* server's lifetime context s.ctx is the variable canceled.                *)
(***************************************************************************)

\* s.cancel == nil, s.currentRun == "", and s.mu not held
NoCancel == 0

NoRunID == 0

Unlocked == 0

\* srv := &uiServer{hub: hub, baseConfig: config, ctx: ctx}
NewUIServer ==
    [mu |-> Unlocked, cancel |-> NoCancel, currentRun |-> NoRunID,
     runs |-> <<>>, reqs |-> <<>>, sent |-> <<>>]

ServerInit ==
    /\ ui = NewUIServer
    /\ canceled = FALSE
    /\ cfg = <<>>
    /\ rb = [pc |-> "idle", i |-> 0, results |-> <<>>, runErr |-> ErrNil, ret |-> NoReturn]
    /\ ev = NoEvents
    /\ resolvers = <<>>
    /\ gdone = {}
    /\ qs = <<>>
    /\ tasks = <<>>
    /\ chans = <<>>
    /\ coll = [allLatencies |-> <<>>, errorCount |-> 0]
    /\ rt = <<>>
    /\ rtlog = <<>>
    /\ hub = NewSSEHub
    /\ bc = NoBroadcast
    /\ call = NoCall

uiRest == <<cfg, rb, ev, resolvers, gdone, qs, tasks, chans, coll, rt, rtlog, hub, bc, call>>

\* a handler up to s.mu.Lock(): the method test, and for handleRun the
\* decoding of the body, buildRunConfig and the run id
Enter(kind, method, ok, h) ==
    IF method # "POST"
    THEN [kind |-> kind, pc |-> "done", cancel |-> NoCancel, runID |-> NoRunID, resp |-> 405]
    ELSE IF kind = "run" /\ ~ok
    THEN [kind |-> kind, pc |-> "done", cancel |-> NoCancel, runID |-> NoRunID, resp |-> 400]
    ELSE [kind |-> kind, pc |-> "lock", cancel |-> NoCancel,
          runID |-> IF kind = "run" THEN h ELSE NoRunID, resp |-> 0]

\* cancel(), for a CancelFunc that is not nil
cancelRun(runs, c) ==
    IF c = NoCancel THEN runs ELSE [runs EXCEPT ![c].canceled = TRUE]

stopRegisteredAlways(c) == TRUE

\* handleStop: if cancel == nil { w.WriteHeader(http.StatusNoContent); return }
stopRegistered(c) == c # NoCancel

\* a request arrives at /api/run, /api/stop or /api/reset
Request(kind, method, ok) ==
    /\ Len(ui.reqs) < MaxRequests
    /\ ui' = [ui EXCEPT !.reqs = Append(@, Enter(kind, method, ok, Len(ui.reqs) + 1))]
    /\ UNCHANGED <<canceled, uiRest>>

\* s.mu.Lock()
Lock(h) ==
    /\ ui.reqs[h].pc = "lock"
    /\ ui.mu = Unlocked
    /\ ui' = [ui EXCEPT !.mu = h, !.reqs[h].pc = "locked"]
    /\ UNCHANGED <<canceled, uiRest>>

\* handleRun with the lock: cancel the registered run, runCtx, cancel :=
\* context.WithCancel(s.ctx), register it, s.mu.Unlock()
RunLocked(h) ==
    /\ ui.reqs[h].pc = "locked"
    /\ ui.reqs[h].kind = "run"
    /\ LET runs == Append(cancelRun(ui.runs, ui.cancel),
                          [id |-> ui.reqs[h].runID, canceled |-> FALSE, state |-> "created"])
       IN  ui' = [ui EXCEPT !.runs = runs,
                            !.cancel = Len(runs),
                            !.currentRun = ui.reqs[h].runID,
                            !.mu = Unlocked,
                            !.reqs[h].cancel = Len(runs),
                            !.reqs[h].pc = "go"]
    /\ UNCHANGED <<canceled, uiRest>>

\* go func() { runBenchmark(runCtx, ...) }(); writeJSON(w, runId)
RunGo(h) ==
    /\ ui.reqs[h].pc = "go"
    /\ ui' = [ui EXCEPT !.runs[ui.reqs[h].cancel].state = "running",
                        !.reqs[h].pc = "done",
                        !.reqs[h].resp = 200]
    /\ UNCHANGED <<canceled, uiRest>>

\* runBenchmark returns, on its own or because its context was canceled
RunEnds(r) ==
    /\ ui.runs[r].state = "running"
    /\ ui' = [ui EXCEPT !.runs[r].state = "finished"]
    /\ UNCHANGED <<canceled, uiRest>>

\* handleStop with the lock: cancel := s.cancel; runID := s.currentRun;
\* s.cancel = nil; s.currentRun = ""; s.mu.Unlock()
StopLocked(h) ==
    /\ ui.reqs[h].pc = "locked"
    /\ ui.reqs[h].kind = "stop"
    /\ ui' = [ui EXCEPT !.reqs[h].cancel = ui.cancel,
                        !.reqs[h].runID = ui.currentRun,
                        !.reqs[h].pc = "after",
                        !.cancel = NoCancel,
                        !.currentRun = NoRunID,
                        !.mu = Unlocked]
    /\ UNCHANGED <<canceled, uiRest>>

\* handleStop after the unlock: 204 when there was no run, else cancel()
StopAfter(h) ==
    /\ ui.reqs[h].pc = "after"
    /\ IF stopRegistered(ui.reqs[h].cancel)
       THEN ui' = [ui EXCEPT !.runs = cancelRun(@, ui.reqs[h].cancel),
                             !.reqs[h].pc = "broadcast"]
       ELSE ui' = [ui EXCEPT !.reqs[h].pc = "done", !.reqs[h].resp = 204]
    /\ UNCHANGED <<canceled, uiRest>>

\* s.hub.Broadcast(SSEEvent{RunID: runID, Type: "stop"}); writeJSON
StopBroadcast(h) ==
    /\ ui.reqs[h].pc = "broadcast"
    /\ ui.reqs[h].kind = "stop"
    /\ ui' = [ui EXCEPT !.sent = Append(@, [RunID |-> ui.reqs[h].runID, Type |-> "stop",
                                            by |-> h]),
                        !.reqs[h].pc = "done",
                        !.reqs[h].resp = 200]
    /\ UNCHANGED <<canceled, uiRest>>

\* handleReset with the lock: cancel the registered run, clear, unlock
ResetLocked(h) ==
    /\ ui.reqs[h].pc = "locked"
    /\ ui.reqs[h].kind = "reset"
    /\ ui' = [ui EXCEPT !.runs = cancelRun(@, ui.cancel),
                        !.cancel = NoCancel,
                        !.currentRun = NoRunID,
                        !.mu = Unlocked,
                        !.reqs[h].pc = "broadcast"]
    /\ UNCHANGED <<canceled, uiRest>>

\* s.hub.Broadcast(SSEEvent{Type: "reset"}); writeJSON
ResetBroadcast(h) ==
    /\ ui.reqs[h].pc = "broadcast"
    /\ ui.reqs[h].kind = "reset"
    /\ ui' = [ui EXCEPT !.sent = Append(@, [RunID |-> NoRunID, Type |-> "reset", by |-> h]),
                        !.reqs[h].pc = "done",
                        !.reqs[h].resp = 200]
    /\ UNCHANGED <<canceled, uiRest>>

\* the server's lifetime context is canceled, and with it every run context
Shutdown ==
    /\ ~canceled
    /\ canceled' = TRUE
    /\ UNCHANGED <<ui, uiRest>>

ServerNext ==
    \/ \E kind \in {"run", "stop", "reset"}, method \in {"POST", "GET"}, ok \in BOOLEAN :
          Request(kind, method, ok)
    \/ \E h \in DOMAIN ui.reqs : Lock(h)
    \/ \E h \in DOMAIN ui.reqs : RunLocked(h)
    \/ \E h \in DOMAIN ui.reqs : RunGo(h)
    \/ \E r \in DOMAIN ui.runs : RunEnds(r)
    \/ \E h \in DOMAIN ui.reqs : StopLocked(h)
    \/ \E h \in DOMAIN ui.reqs : StopAfter(h)
    \/ \E h \in DOMAIN ui.reqs : StopBroadcast(h)
    \/ \E h \in DOMAIN ui.reqs : ResetLocked(h)
    \/ \E h \in DOMAIN ui.reqs : ResetBroadcast(h)
    \/ Shutdown

SpecServer == ServerInit /\ [][ServerNext]_vars

\* the context of run r is canceled: by its own CancelFunc or by s.ctx
RunCtxCanceled(r) == ui.runs[r].canceled \/ canceled

LiveRuns == {r \in DOMAIN ui.runs : ~RunCtxCanceled(r)}

\* C38 (as claimed): at every moment at most one run has a context that is
\* not canceled, and every cancel() of a run is called with s.mu held.
C38_OneLiveRun ==
    /\ [](Cardinality(LiveRuns) <= 1)
    /\ [][\A r \in DOMAIN ui.runs :
            (ui'.runs[r].canceled /\ ~ui.runs[r].canceled) => ui.mu # Unlocked]_vars

\* the handleStop requests, and the events one request broadcast
Stops == {h \in DOMAIN ui.reqs : ui.reqs[h].kind = "stop"}

SentBy(h) == {k \in DOMAIN ui.sent : ui.sent[k].by = h}

\* C39: a handleStop that found no registered run answers 204 and broadcasts
\* nothing; one that found a run answers 200 after canceling that run and
\* broadcasting exactly one "stop" event with that run's id; every "stop"
\* event comes from such a request, and no two requests stop the same
\* registration, so a stop that follows a stop finds nothing.  The locked
\* section of handleStop takes the registration and clears it, and a run
\* that finishes leaves the registration as it is.
C39_StopOnlyWhenRegistered ==
    /\ [](\A h \in Stops :
            LET f == ui.reqs[h] IN
            /\ f.resp = 204 => f.cancel = NoCancel /\ SentBy(h) = {}
            /\ f.resp = 200 =>
                  /\ f.cancel # NoCancel
                  /\ ui.runs[f.cancel].canceled
                  /\ Cardinality(SentBy(h)) = 1
            /\ f.pc = "done" /\ f.cancel # NoCancel => f.resp = 200
            /\ f.pc = "done" /\ f.cancel = NoCancel => f.resp \in {204, 405})
    /\ [](\A k \in DOMAIN ui.sent :
            ui.sent[k].Type = "stop" =>
                LET f == ui.reqs[ui.sent[k].by] IN
                /\ f.kind = "stop"
                /\ f.cancel # NoCancel
                /\ ui.sent[k].RunID = ui.runs[f.cancel].id
                /\ ui.runs[f.cancel].canceled)
    /\ [](\A h1, h2 \in Stops :
            h1 # h2 /\ ui.reqs[h1].cancel # NoCancel =>
                ui.reqs[h1].cancel # ui.reqs[h2].cancel)
    /\ [][\A h \in Stops :
            ui.reqs[h].pc = "locked" /\ ui'.reqs[h].pc = "after" =>
                /\ ui'.reqs[h].cancel = ui.cancel
                /\ ui'.reqs[h].runID = ui.currentRun
                /\ ui'.cancel = NoCancel
                /\ ui'.currentRun = NoRunID]_vars
    /\ [][\A h \in Stops :
            ui.reqs[h].pc = "after" /\ ui.reqs[h].cancel = NoCancel /\ ui'.reqs[h].pc # "after" =>
                /\ ui'.reqs[h].resp = 204
                /\ ui'.runs = ui.runs
                /\ ui'.sent = ui.sent
                /\ ui'.cancel = ui.cancel]_vars
    /\ [][\A r \in DOMAIN ui.runs :
            ui.runs[r].state = "running" /\ ui'.runs[r].state = "finished" =>
                ui'.cancel = ui.cancel /\ ui'.currentRun = ui.currentRun]_vars

\* two stops after a run: the first stopped it and broadcast its id, the
\* second found nothing and answered 204; and the run had finished on its
\* own while it was still registered
C39_Witness ==
    \E h1, h2 \in Stops :
        /\ ui.reqs[h1].resp = 200
        /\ ui.reqs[h2].resp = 204
        /\ h1 < h2
        /\ ui.runs[ui.reqs[h1].cancel].state = "finished"
        /\ Len(ui.sent) = 1
        /\ ui.sent[1].RunID = ui.runs[ui.reqs[h1].cancel].id

====
